---- MODULE Spec2Model ----
(***************************************************************************)
(* The account store of the solana-workshop examples: the memo program     *)
(* (answer/memo.md), the token-metadata program, the Anchor note program   *)
(* and the sysvar PDA program, run one instruction per transaction against *)
(* a ledger of accounts.  A handler is an operator from the ledger before  *)
(* the instruction to [err, accts]; the transaction wrapper commits accts  *)
(* when err = "Ok" and discards it otherwise, as the runtime does.         *)
(***************************************************************************)
EXTENDS Integers, Sequences, FiniteSets, TLC

VARIABLES
    deployed,   \* the example program deployed on the test ledger
    accounts,   \* address -> [lamports, data, owner]
    last,       \* the last transaction: its operation, its outcome, and
                \* whether it created a record where one had been closed
    closed,     \* addresses whose record a Delete closed and no Create reopened
    createdAuth, \* address -> authority bytes written by the Create (<<>>: none)
    clock,      \* the Clock sysvar's unix_timestamp
    foreign,    \* committed transactions paid by, or refunded to, a third party
    call        \* the codec call under way: the payload, its bytes, the result

vars == <<deployed, accounts, last, closed, createdAuth, clock, foreign, call>>

(***************************************************************************)
(* Bounds of the model.                                                    *)
(***************************************************************************)
\* longest "ordinary" content the clients send (besides the limit cases)
MaxShortLen == 2
\* number of memo keypair accounts
NumMemoKeys == 1
\* committed transactions whose payer or receiver is not the authority
MaxForeign == 1
NumNoteIds == 1
\* ids one user creates notes under
NumNotes == 2
MaxClock == 2
\* vaults one run creates
MaxVaults == 2
\* transactions sent to the user-stats program
MaxStatsCalls == 3

(***************************************************************************)
(* Keys.  A public key is a number below 2^24; PubkeyBytes lays it out as  *)
(* the 32 bytes the programs store and compare.                            *)
(***************************************************************************)
PUBKEY_BYTES == 32
SYSTEM_PROGRAM == 0
userA == 1
userB == 2
MEMO_PROGRAM == 11
TOKEN_METADATA_PROGRAM == 12
NOTE_PROGRAM == 13
SYSVAR_PROGRAM == 14
TOKEN_PROGRAM_ID == 15
VAULT_PROGRAM == 17
STATS_PROGRAM == 36
MemoKeyBase == 20
mintX == 31
mintY == 32
SysvarIdBase == 40
\* the accounts of the Clock, Rent, EpochSchedule and Fees sysvars, by the
\* number of the instruction that reads each
SysvarIds == [v \in 4..7 |-> SysvarIdBase + v]

Users == {userA, userB}
MemoKeys == {MemoKeyBase + i : i \in 1..NumMemoKeys}

Zeros(n) == [i \in 1..n |-> 0]

PubkeyBytes(k) ==
    <<k % 256, (k \div 256) % 256, (k \div 65536) % 256>> \o Zeros(PUBKEY_BYTES - 3)

(***************************************************************************)
(* Borsh: little-endian fixed-width integers, strings with a 4-byte length *)
(* prefix.  A reader is [ok, val, rest].                                   *)
(***************************************************************************)
U32LE(n) ==
    <<n % 256, (n \div 256) % 256, (n \div 65536) % 256, (n \div 16777216) % 256>>

U64LE(n) == U32LE(n) \o Zeros(4)

Drop(s, n) == SubSeq(s, n + 1, Len(s))
Take(s, n) == SubSeq(s, 1, n)

ReadFail == [ok |-> FALSE, val |-> <<>>, rest |-> <<>>]

ReadU8(s) ==
    IF Len(s) < 1 THEN ReadFail
    ELSE [ok |-> TRUE, val |-> <<s[1]>>, rest |-> Drop(s, 1)]

ReadBytes(s, n) ==
    IF Len(s) < n THEN ReadFail
    ELSE [ok |-> TRUE, val |-> Take(s, n), rest |-> Drop(s, n)]

ReadU64(s) == ReadBytes(s, 8)

\* a reader that takes the length from the first byte of the prefix alone
ReadString_byte_length(s) ==
    IF Len(s) < 4 THEN ReadFail
    ELSE ReadBytes(Drop(s, 4), s[1])

\* the length is kept below 2^31 by rejecting a set top byte (the buffer is
\* never that long, so the read fails in the code too)
ReadString(s) ==
    IF Len(s) < 4 THEN ReadFail
    ELSE IF s[4] # 0 THEN ReadFail
    ELSE LET n == s[1] + 256 * s[2] + 65536 * s[3]
         IN  ReadBytes(Drop(s, 4), n)

WriteString(c) == U32LE(Len(c)) \o c

\* a writer that drops the bytes that do not fit and reports success
SerializeInto_truncating(buf, bytes) ==
    IF Len(bytes) <= Len(buf)
    THEN [ok |-> TRUE, data |-> bytes \o Drop(buf, Len(bytes))]
    ELSE [ok |-> TRUE, data |-> Take(bytes, Len(buf))]

\* Write for &mut [u8]: the bytes that fit are copied, and write_all fails
\* (WriteZero) once the buffer is full.
SerializeInto(buf, bytes) ==
    IF Len(bytes) <= Len(buf)
    THEN [ok |-> TRUE, data |-> bytes \o Drop(buf, Len(bytes))]
    ELSE [ok |-> FALSE, data |-> Take(bytes, Len(buf))]

(***************************************************************************)
(* The ledger.                                                             *)
(***************************************************************************)
LAMPORTS_PER_SOL == 1000000000
ACCOUNT_STORAGE_OVERHEAD == 128
LAMPORTS_PER_BYTE_YEAR == 3480
EXEMPTION_THRESHOLD == 2

\* a minimum balance computed in a 24-bit integer
minimum_balance_u24(space) ==
    ((ACCOUNT_STORAGE_OVERHEAD + space) * LAMPORTS_PER_BYTE_YEAR * EXEMPTION_THRESHOLD)
        % 16777216

\* Rent::minimum_balance
minimum_balance(space) ==
    (ACCOUNT_STORAGE_OVERHEAD + space) * LAMPORTS_PER_BYTE_YEAR * EXEMPTION_THRESHOLD

NoAccount == [lamports |-> 0, data |-> <<>>, owner |-> SYSTEM_PROGRAM]

\* ProgramError::BorshIoError carries the io::Error's message: a write past
\* the end of the buffer, or a failed read
WRITE_ZERO == "BorshIoError(failed to write whole buffer)"
DECODE_ERROR == "BorshIoError(decode)"

Ok(a) == [err |-> "Ok", accts |-> a]
Fail(e, a) == [err |-> e, accts |-> a]

\* the system program's create_account without its check that the new
\* address is unused
create_account_unchecked(a, from, to, lamports, space, owner, signers) ==
    IF from \notin signers \/ to \notin signers THEN Fail("PrivilegeEscalation", a)
    ELSE IF a[from].data # <<>> THEN Fail("InvalidArgument", a)
    ELSE IF a[from].lamports < lamports THEN Fail("InsufficientFunds", a)
    ELSE Ok([a EXCEPT ![from].lamports = @ - lamports,
                      ![to] = [lamports |-> lamports, data |-> Zeros(space),
                               owner |-> owner]])

\* system_instruction::create_account, reached through invoke
create_account(a, from, to, lamports, space, owner, signers) ==
    IF from \notin signers \/ to \notin signers THEN Fail("PrivilegeEscalation", a)
    ELSE IF a[to].lamports > 0 THEN Fail("AccountAlreadyInUse", a)
    ELSE IF a[to].data # <<>> \/ a[to].owner # SYSTEM_PROGRAM
         THEN Fail("AccountAlreadyInUse", a)
    ELSE IF a[from].data # <<>> THEN Fail("InvalidArgument", a)
    ELSE IF a[from].lamports < lamports THEN Fail("InsufficientFunds", a)
    ELSE Ok([a EXCEPT ![from].lamports = @ - lamports,
                      ![to] = [lamports |-> lamports,
                               data |-> Zeros(space),
                               owner |-> owner]])

(***************************************************************************)
(* Program-derived addresses.  Sha stands for the ledger's address hash:   *)
(* a hash of the bytes below 2^20; a candidate is on the curve (reserved   *)
(* for keypairs) when its hash is odd.                                     *)
(***************************************************************************)
PDA_MARKER ==
    <<80, 114, 111, 103, 114, 97, 109, 68, 101, 114, 105, 118, 101, 100,
      65, 100, 100, 114, 101, 115, 115>>
HashModulus == 1048573
MAX_BUMP == 255

\* the hash of s[lo..hi], folded as a balanced tree
RECURSIVE ShaRange(_, _, _)
ShaRange(s, lo, hi) ==
    IF lo > hi THEN 7
    ELSE IF lo = hi THEN (s[lo] * 131 + lo * 31 + 7) % HashModulus
    ELSE LET mid == (lo + hi) \div 2
         IN  (ShaRange(s, lo, mid) * 257 + ShaRange(s, mid + 1, hi) * 31 + 11)
                 % HashModulus

Sha(s) == ShaRange(s, 1, Len(s))

IsOnCurve(h) == h % 2 = 1

RECURSIVE Flatten(_)
Flatten(seeds) ==
    IF seeds = <<>> THEN <<>> ELSE Head(seeds) \o Flatten(Tail(seeds))

\* Pubkey::create_program_address
create_program_address(seeds, program_id) ==
    LET h == Sha(Flatten(seeds) \o PubkeyBytes(program_id) \o PDA_MARKER)
    IN  [ok |-> ~IsOnCurve(h), key |-> h, bump |-> 0]

\* the first candidate taken as it is, with no further bump tried
find_from_first(seeds, program_id, bump) ==
    [create_program_address(Append(seeds, <<bump>>), program_id) EXCEPT !.bump = bump]

RECURSIVE find_from(_, _, _)
find_from(seeds, program_id, bump) ==
    IF bump < 0 THEN [ok |-> FALSE, key |-> 0, bump |-> 0]
    ELSE LET r == create_program_address(Append(seeds, <<bump>>), program_id)
         IN  IF r.ok THEN [r EXCEPT !.bump = bump]
             ELSE find_from(seeds, program_id, bump - 1)

\* b"metadata", b"note", b"index", b"vault"
METADATA_SEED == <<109, 101, 116, 97, 100, 97, 116, 97>>
NOTE_SEED == <<110, 111, 116, 101>>
INDEX_SEED == <<105, 110, 100, 101, 120>>
VAULT_SEED == <<118, 97, 117, 108, 116>>
\* b"user-stats"
USER_STATS_SEED == <<117, 115, 101, 114, 45, 115, 116, 97, 116, 115>>

\* the derivations the clients and the handlers ask for, computed once
DerivationInputs ==
    {<<<<METADATA_SEED, PubkeyBytes(TOKEN_PROGRAM_ID), PubkeyBytes(m)>>,
       TOKEN_METADATA_PROGRAM>> : m \in {mintX, mintY}}
    \cup {<<<<PubkeyBytes(u), NOTE_SEED, U64LE(i)>>, NOTE_PROGRAM>> :
            u \in Users, i \in (0..(NumNoteIds - 1)) \cup (0..(NumNotes - 1))}
    \cup {<<<<PubkeyBytes(u), INDEX_SEED>>, NOTE_PROGRAM>> : u \in Users}
    \cup {<<<<VAULT_SEED, PubkeyBytes(u)>>, VAULT_PROGRAM>> : u \in Users}
    \cup {<<<<USER_STATS_SEED, PubkeyBytes(u)>>, STATS_PROGRAM>> : u \in Users}
    \cup {<<<<<<b>>>>, SYSVAR_PROGRAM>> : b \in {97, 98}}

DerivationTable == [d \in DerivationInputs |-> find_from(d[1], d[2], MAX_BUMP)]

\* Pubkey::find_program_address
find_program_address(seeds, program_id) ==
    IF <<seeds, program_id>> \in DerivationInputs
    THEN DerivationTable[<<seeds, program_id>>]
    ELSE find_from(seeds, program_id, MAX_BUMP)

(***************************************************************************)
(* The memo program: state.rs, instruction.rs, processor.rs of memo.md.    *)
(***************************************************************************)
MAX_CONTENT_LENGTH == 1000

\* Memo { is_initialized: bool, authority: Pubkey, content: String }
Memo_encode(m) ==
    <<IF m.is_initialized THEN 1 ELSE 0>> \o m.authority \o WriteString(m.content)

NoMemo == [is_initialized |-> FALSE, authority |-> <<>>, content |-> <<>>]

\* Memo::try_from_slice: every field in turn, then no byte may be left
Memo_try_from_slice(data) ==
    LET b == ReadU8(data)
        k == IF b.ok THEN ReadBytes(b.rest, PUBKEY_BYTES) ELSE ReadFail
        c == IF k.ok THEN ReadString(k.rest) ELSE ReadFail
    IN  IF ~b.ok \/ b.val[1] > 1 THEN [ok |-> FALSE, val |-> NoMemo]
        ELSE IF ~k.ok \/ ~c.ok \/ c.rest # <<>> THEN [ok |-> FALSE, val |-> NoMemo]
        ELSE [ok |-> TRUE,
              val |-> [is_initialized |-> b.val[1] = 1,
                       authority |-> k.val,
                       content |-> c.val]]

\* enum MemoInstruction { Initialize { content }, Update { content }, Delete }
MemoInstruction_encode(i) ==
    CASE i.tag = "Initialize" -> <<0>> \o WriteString(i.content)
      [] i.tag = "Update"     -> <<1>> \o WriteString(i.content)
      [] i.tag = "Delete"     -> <<2>>

NoInstruction == [tag |-> "None", content |-> <<>>]

\* the decoder without try_from_slice's test that no byte is left
MemoInstruction_deserialize(data) ==
    LET v == ReadU8(data)
        c == IF v.ok THEN ReadString(v.rest) ELSE ReadFail
    IN  IF ~v.ok THEN [ok |-> FALSE, val |-> NoInstruction]
        ELSE IF v.val[1] \in {0, 1}
             THEN IF c.ok
                  THEN [ok |-> TRUE,
                        val |-> [tag |-> IF v.val[1] = 0 THEN "Initialize" ELSE "Update",
                                 content |-> c.val]]
                  ELSE [ok |-> FALSE, val |-> NoInstruction]
        ELSE IF v.val[1] = 2
             THEN [ok |-> TRUE, val |-> [tag |-> "Delete", content |-> <<>>]]
        ELSE [ok |-> FALSE, val |-> NoInstruction]

MemoInstruction_try_from_slice(data) ==
    LET v == ReadU8(data)
        c == IF v.ok THEN ReadString(v.rest) ELSE ReadFail
    IN  IF ~v.ok THEN [ok |-> FALSE, val |-> NoInstruction]
        ELSE IF v.val[1] \in {0, 1}
             THEN IF c.ok /\ c.rest = <<>>
                  THEN [ok |-> TRUE,
                        val |-> [tag |-> IF v.val[1] = 0 THEN "Initialize" ELSE "Update",
                                 content |-> c.val]]
                  ELSE [ok |-> FALSE, val |-> NoInstruction]
        ELSE IF v.val[1] = 2 /\ v.rest = <<>>
             THEN [ok |-> TRUE, val |-> [tag |-> "Delete", content |-> <<>>]]
        ELSE [ok |-> FALSE, val |-> NoInstruction]

\* The accounts of an instruction, in the order the handler reads them:
\* x.payer, x.target, x.authority, x.receiver, and x.signers, the keys the
\* runtime verified a signature for.
process_initialize(a, x, content) ==
    IF Len(content) > MAX_CONTENT_LENGTH THEN Fail("MemoTooLong", a)
    ELSE IF x.payer \notin x.signers THEN Fail("MissingRequiredSignature", a)
    ELSE IF x.authority \notin x.signers THEN Fail("MissingRequiredSignature", a)
    ELSE LET bytes == Memo_encode([is_initialized |-> TRUE,
                                   authority |-> PubkeyBytes(x.authority),
                                   content |-> content])
             space == Len(bytes)
             r == create_account(a, x.payer, x.target, minimum_balance(space),
                                 space, MEMO_PROGRAM, x.signers)
         IN  IF r.err # "Ok" THEN r
             ELSE LET w == SerializeInto(r.accts[x.target].data, bytes)
                      b == [r.accts EXCEPT ![x.target].data = w.data]
                  IN  IF w.ok THEN Ok(b) ELSE Fail(WRITE_ZERO, b)

\* an update that does not compare the caller with the stored authority and
\* stamps the caller into the record
process_update_reassigning(a, x, content) ==
    IF Len(content) > MAX_CONTENT_LENGTH THEN Fail("MemoTooLong", a)
    ELSE IF a[x.target].owner # MEMO_PROGRAM THEN Fail("IncorrectProgramId", a)
    ELSE IF x.authority \notin x.signers THEN Fail("MissingRequiredSignature", a)
    ELSE LET d == Memo_try_from_slice(a[x.target].data)
         IN  IF ~d.ok THEN Fail(DECODE_ERROR, a)
             ELSE IF ~d.val.is_initialized THEN Fail("UninitializedAccount", a)
             ELSE LET w == SerializeInto(a[x.target].data,
                               Memo_encode([d.val EXCEPT
                                   !.content = content,
                                   !.authority = PubkeyBytes(x.authority)]))
                      b == [a EXCEPT ![x.target].data = w.data]
                  IN  IF w.ok THEN Ok(b) ELSE Fail(WRITE_ZERO, b)

\* an update that, finding no memo at the address, writes one there at the
\* caller's expense
process_update_recreating(a, x, content) ==
    LET bytes == Memo_encode([is_initialized |-> TRUE,
                              authority |-> PubkeyBytes(x.authority),
                              content |-> content])
        rent == minimum_balance(Len(bytes))
    IN  IF Len(content) > MAX_CONTENT_LENGTH THEN Fail("MemoTooLong", a)
        ELSE IF x.authority \notin x.signers THEN Fail("MissingRequiredSignature", a)
        ELSE IF a[x.target].owner = MEMO_PROGRAM THEN Fail("Unauthorized", a)
        ELSE Ok([a EXCEPT ![x.authority].lamports = @ - rent,
                          ![x.target] = [lamports |-> rent, data |-> bytes,
                                         owner |-> MEMO_PROGRAM]])

process_update(a, x, content) ==
    IF Len(content) > MAX_CONTENT_LENGTH THEN Fail("MemoTooLong", a)
    ELSE IF a[x.target].owner # MEMO_PROGRAM THEN Fail("IncorrectProgramId", a)
    ELSE IF x.authority \notin x.signers THEN Fail("MissingRequiredSignature", a)
    ELSE LET d == Memo_try_from_slice(a[x.target].data)
         IN  IF ~d.ok THEN Fail(DECODE_ERROR, a)
             ELSE IF ~d.val.is_initialized THEN Fail("UninitializedAccount", a)
             ELSE IF d.val.authority # PubkeyBytes(x.authority)
                  THEN Fail("Unauthorized", a)
             ELSE LET w == SerializeInto(a[x.target].data,
                                         Memo_encode([d.val EXCEPT !.content = content]))
                      b == [a EXCEPT ![x.target].data = w.data]
                  IN  IF w.ok THEN Ok(b) ELSE Fail(WRITE_ZERO, b)

\* a delete that refunds the rent and leaves the memo's bytes in place
process_delete_leaving_data(a, x) ==
    IF a[x.target].owner # MEMO_PROGRAM THEN Fail("IncorrectProgramId", a)
    ELSE IF x.authority \notin x.signers THEN Fail("MissingRequiredSignature", a)
    ELSE LET d == Memo_try_from_slice(a[x.target].data)
         IN  IF ~d.ok THEN Fail(DECODE_ERROR, a)
             ELSE IF ~d.val.is_initialized THEN Fail("UninitializedAccount", a)
             ELSE IF d.val.authority # PubkeyBytes(x.authority)
                  THEN Fail("Unauthorized", a)
             ELSE LET memo_lamports == a[x.target].lamports
                      b == [a EXCEPT ![x.receiver].lamports = @ + memo_lamports]
                  IN  Ok([b EXCEPT ![x.target].lamports = 0])

process_delete(a, x) ==
    IF a[x.target].owner # MEMO_PROGRAM THEN Fail("IncorrectProgramId", a)
    ELSE IF x.authority \notin x.signers THEN Fail("MissingRequiredSignature", a)
    ELSE LET d == Memo_try_from_slice(a[x.target].data)
         IN  IF ~d.ok THEN Fail(DECODE_ERROR, a)
             ELSE IF ~d.val.is_initialized THEN Fail("UninitializedAccount", a)
             ELSE IF d.val.authority # PubkeyBytes(x.authority)
                  THEN Fail("Unauthorized", a)
             ELSE LET memo_lamports == a[x.target].lamports
                      b == [a EXCEPT ![x.receiver].lamports = @ + memo_lamports]
                      c == [b EXCEPT ![x.target].lamports = 0]
                  IN  Ok([c EXCEPT ![x.target].data = Zeros(Len(@))])

\* a dispatcher that lets bytes it cannot decode pass as a no-op
Memo_process_ignoring(a, x, instruction_data) ==
    LET i == MemoInstruction_try_from_slice(instruction_data)
    IN  IF ~i.ok THEN Ok(a)
        ELSE CASE i.val.tag = "Initialize" -> process_initialize(a, x, i.val.content)
               [] i.val.tag = "Update"     -> process_update(a, x, i.val.content)
               [] i.val.tag = "Delete"     -> process_delete(a, x)

\* Processor::process
Memo_process(a, x, instruction_data) ==
    LET i == MemoInstruction_try_from_slice(instruction_data)
    IN  IF ~i.ok THEN Fail("InvalidInstruction", a)
        ELSE CASE i.val.tag = "Initialize" -> process_initialize(a, x, i.val.content)
               [] i.val.tag = "Update"     -> process_update(a, x, i.val.content)
               [] i.val.tag = "Delete"     -> process_delete(a, x)

(***************************************************************************)
(* The token-metadata program: state.rs, instruction.rs and processor.rs   *)
(* of the token-metadata tutorial.                                         *)
(***************************************************************************)
\* TokenMetadata { mint: Pubkey, name, symbol, icon, home: String }
TokenMetadata_encode(m) ==
    m.mint \o WriteString(m.name) \o WriteString(m.symbol)
           \o WriteString(m.icon) \o WriteString(m.home)

\* enum TokenMetadataInstruction { RegisterMetadata {..}, UpdateMetadata {..} }
TokenMetadataInstruction_encode(i) ==
    <<IF i.tag = "RegisterMetadata" THEN 0 ELSE 1>>
        \o WriteString(i.name) \o WriteString(i.symbol)
        \o WriteString(i.icon) \o WriteString(i.home)

NoMetadataInstruction ==
    [tag |-> "None", name |-> <<>>, symbol |-> <<>>, icon |-> <<>>, home |-> <<>>]

TokenMetadataInstruction_try_from_slice(data) ==
    LET v == ReadU8(data)
        n == IF v.ok THEN ReadString(v.rest) ELSE ReadFail
        s == IF n.ok THEN ReadString(n.rest) ELSE ReadFail
        i == IF s.ok THEN ReadString(s.rest) ELSE ReadFail
        h == IF i.ok THEN ReadString(i.rest) ELSE ReadFail
    IN  IF ~h.ok \/ h.rest # <<>> \/ v.val[1] > 1
        THEN [ok |-> FALSE, val |-> NoMetadataInstruction]
        ELSE [ok |-> TRUE,
              val |-> [tag |-> IF v.val[1] = 0 THEN "RegisterMetadata"
                               ELSE "UpdateMetadata",
                       name |-> n.val, symbol |-> s.val,
                       icon |-> i.val, home |-> h.val]]

\* the seeds both handlers derive the metadata address from
MetadataSeeds(x) ==
    <<METADATA_SEED, PubkeyBytes(x.spl_token_program), PubkeyBytes(x.mint)>>

\* a registration that does not compare the metadata account with the
\* derived address
process_register_metadata_any_address(a, x, m) ==
    IF x.authority \notin x.signers THEN Fail("MissingRequiredSignature", a)
    ELSE LET pda == find_program_address(MetadataSeeds(x), TOKEN_METADATA_PROGRAM)
             bytes == TokenMetadata_encode([m EXCEPT !.mint = PubkeyBytes(x.mint)])
             size == Len(bytes)
             signed == create_program_address(
                           Append(MetadataSeeds(x), <<pda.bump>>),
                           TOKEN_METADATA_PROGRAM)
             r == create_account(a, x.authority, x.target, minimum_balance(size),
                                 size, TOKEN_METADATA_PROGRAM,
                                 x.signers \cup {signed.key})
         IN  IF r.err # "Ok" THEN r
             ELSE LET w == SerializeInto(r.accts[x.target].data, bytes)
                      b == [r.accts EXCEPT ![x.target].data = w.data]
                  IN  IF w.ok THEN Ok(b) ELSE Fail(WRITE_ZERO, b)

\* x.authority, x.target (the metadata account), x.mint, x.spl_token_program
process_register_metadata(a, x, m) ==
    IF x.authority \notin x.signers THEN Fail("MissingRequiredSignature", a)
    ELSE LET pda == find_program_address(MetadataSeeds(x), TOKEN_METADATA_PROGRAM)
         IN  IF ~pda.ok THEN Fail("ProgramFailedToComplete", a)
             ELSE IF pda.key # x.target THEN Fail("InvalidArgument", a)
             ELSE LET bytes == TokenMetadata_encode(
                                   [m EXCEPT !.mint = PubkeyBytes(x.mint)])
                      size == Len(bytes)
                      signed == create_program_address(
                                    Append(MetadataSeeds(x), <<pda.bump>>),
                                    TOKEN_METADATA_PROGRAM)
                      r == create_account(a, x.authority, x.target,
                                          minimum_balance(size), size,
                                          TOKEN_METADATA_PROGRAM,
                                          x.signers \cup {signed.key})
                  IN  IF r.err # "Ok" THEN r
                      ELSE LET w == SerializeInto(r.accts[x.target].data, bytes)
                               b == [r.accts EXCEPT ![x.target].data = w.data]
                           IN  IF w.ok THEN Ok(b) ELSE Fail(WRITE_ZERO, b)

process_update_metadata(a, x, m) ==
    IF x.authority \notin x.signers THEN Fail("MissingRequiredSignature", a)
    ELSE LET pda == find_program_address(MetadataSeeds(x), TOKEN_METADATA_PROGRAM)
         IN  IF ~pda.ok THEN Fail("ProgramFailedToComplete", a)
             ELSE IF pda.key # x.target THEN Fail("InvalidArgument", a)
             ELSE IF a[x.target].owner # TOKEN_METADATA_PROGRAM
                  THEN Fail("IncorrectProgramId", a)
             ELSE LET bytes == TokenMetadata_encode(
                                   [m EXCEPT !.mint = PubkeyBytes(x.mint)])
                      w == SerializeInto(a[x.target].data, bytes)
                      b == [a EXCEPT ![x.target].data = w.data]
                  IN  IF w.ok THEN Ok(b) ELSE Fail(WRITE_ZERO, b)

\* Processor::process of the token-metadata program
TokenMetadata_process(a, x, instruction_data) ==
    LET i == TokenMetadataInstruction_try_from_slice(instruction_data)
        m == [mint |-> <<>>, name |-> i.val.name, symbol |-> i.val.symbol,
              icon |-> i.val.icon, home |-> i.val.home]
    IN  IF ~i.ok THEN Fail(DECODE_ERROR, a)
        ELSE IF i.val.tag = "RegisterMetadata"
             THEN process_register_metadata(a, x, m)
        ELSE process_update_metadata(a, x, m)

(***************************************************************************)
(* The sysvar program of the sysvar tutorial: process_instruction and its  *)
(* handlers.  now is the Clock sysvar's unix_timestamp.                    *)
(***************************************************************************)
\* enum SysvarInstruction: thirteen variants, numbered in declaration order
SYSVAR_VARIANTS == 13
CALCULATE_RENT == 8
CREATE_PDA_ACCOUNT == 9
GET_ACCOUNT_CREATION_TIME == 10
CHECK_RENT_EXEMPTION == 11
TIMESTAMP_BYTES == 8

SysvarInstruction_encode(i) ==
    <<i.variant>> \o
    (CASE i.variant = CALCULATE_RENT -> i.size
       [] i.variant = CREATE_PDA_ACCOUNT -> i.size \o WriteString(i.seed)
       [] i.variant \in {GET_ACCOUNT_CREATION_TIME, CHECK_RENT_EXEMPTION} ->
              WriteString(i.seed)
       [] OTHER -> <<>>)

NoSysvarInstruction == [variant |-> SYSVAR_VARIANTS, size |-> <<>>, seed |-> <<>>]

SysvarInstruction_try_from_slice(data) ==
    LET v == ReadU8(data)
        variant == IF v.ok THEN v.val[1] ELSE SYSVAR_VARIANTS
        hasSize == variant \in {CALCULATE_RENT, CREATE_PDA_ACCOUNT}
        hasSeed == variant \in {CREATE_PDA_ACCOUNT, GET_ACCOUNT_CREATION_TIME,
                                CHECK_RENT_EXEMPTION}
        z == IF hasSize THEN ReadU64(v.rest)
             ELSE [ok |-> TRUE, val |-> <<>>, rest |-> v.rest]
        s == IF ~z.ok THEN ReadFail
             ELSE IF hasSeed THEN ReadString(z.rest)
             ELSE [ok |-> TRUE, val |-> <<>>, rest |-> z.rest]
    IN  IF ~v.ok \/ variant >= SYSVAR_VARIANTS \/ ~s.ok \/ s.rest # <<>>
        THEN [ok |-> FALSE, val |-> NoSysvarInstruction]
        ELSE [ok |-> TRUE, val |-> [variant |-> variant, size |-> z.val, seed |-> s.val]]

\* a u64 the examples pass: its value, read from the low bytes
U64Value(b) == b[1] + 256 * b[2] + 65536 * b[3]

\* x.payer, x.target (the PDA account), x.system_program
create_pda_account(a, x, space, seed, now) ==
    IF x.system_program # SYSTEM_PROGRAM THEN Fail("IncorrectProgramId", a)
    ELSE LET pda == find_program_address(<<seed>>, SYSVAR_PROGRAM)
         IN  IF ~pda.ok THEN Fail("ProgramFailedToComplete", a)
             ELSE IF pda.key # x.target THEN Fail("InvalidArgument", a)
             ELSE LET signed == create_program_address(<<seed, <<pda.bump>>>>,
                                                       SYSVAR_PROGRAM)
                      r == create_account(a, x.payer, x.target,
                                          minimum_balance(U64Value(space)),
                                          U64Value(space), SYSVAR_PROGRAM,
                                          x.signers \cup {signed.key})
                  IN  IF r.err # "Ok" THEN r
                      ELSE IF Len(r.accts[x.target].data) < TIMESTAMP_BYTES
                           THEN Fail("ProgramFailedToComplete", r.accts)
                      ELSE Ok([r.accts EXCEPT ![x.target].data =
                                  U64LE(now) \o Drop(@, TIMESTAMP_BYTES)])

\* show_*_from_account: the account handed in must be the sysvar's own
show_from_account(a, x, sysvar_id) ==
    IF x.target # sysvar_id THEN Fail("InvalidArgument", a) ELSE Ok(a)

get_account_creation_time(a, x, seed) ==
    LET pda == find_program_address(<<seed>>, SYSVAR_PROGRAM)
    IN  IF ~pda.ok THEN Fail("ProgramFailedToComplete", a)
        ELSE IF pda.key # x.target THEN Fail("InvalidArgument", a)
        ELSE IF Len(a[x.target].data) < TIMESTAMP_BYTES
             THEN Fail("InvalidAccountData", a)
        ELSE Ok(a)

check_rent_exemption(a, x, seed) ==
    LET pda == find_program_address(<<seed>>, SYSVAR_PROGRAM)
    IN  IF ~pda.ok THEN Fail("ProgramFailedToComplete", a)
        ELSE IF pda.key # x.target THEN Fail("InvalidArgument", a)
        ELSE Ok(a)

\* process_instruction of the sysvar program
Sysvar_process(a, x, instruction_data, now) ==
    LET i == SysvarInstruction_try_from_slice(instruction_data)
        v == i.val.variant
    IN  IF ~i.ok THEN Fail("InvalidInstructionData", a)
        ELSE IF v = CREATE_PDA_ACCOUNT
             THEN create_pda_account(a, x, i.val.size, i.val.seed, now)
        ELSE IF v = GET_ACCOUNT_CREATION_TIME
             THEN get_account_creation_time(a, x, i.val.seed)
        ELSE IF v = CHECK_RENT_EXEMPTION
             THEN check_rent_exemption(a, x, i.val.seed)
        ELSE IF v \in 4..7 THEN show_from_account(a, x, SysvarIds[v])
        ELSE Ok(a)

(***************************************************************************)
(* The note program of the Anchor tutorial (section 15.4), called as the   *)
(* test suite calls it: create(note_id, message), update(note_id,          *)
(* message), delete(note_id).  Anchor reads the arguments, validates the   *)
(* accounts (fields in order, then constraints), runs the handler and      *)
(* writes the account back.                                                *)
(***************************************************************************)
NOTE_DISCRIMINATOR == <<203, 75, 252, 196, 81, 210, 122, 126>>
IX_CREATE == <<24, 30, 200, 40, 5, 28, 7, 119>>
IX_UPDATE == <<219, 200, 88, 176, 158, 63, 253, 127>>
IX_DELETE == <<165, 204, 60, 98, 134, 15, 83, 134>>
DISCRIMINATOR_BYTES == 8
MAX_MESSAGE_LENGTH == 1000

\* Note::MAX_SIZE
Note_MAX_SIZE == 8 + 32 + 8 + 4 + 1000 + 8 + 8

\* Note { authority, note_id, message, created_at, updated_at }
Note_encode(n) ==
    NOTE_DISCRIMINATOR \o n.authority \o n.note_id \o WriteString(n.message)
        \o U64LE(n.created_at) \o U64LE(n.updated_at)

NoNote == [authority |-> <<>>, note_id |-> <<>>, message |-> <<>>,
           created_at |-> 0, updated_at |-> 0]

\* Account<Note>::try_from without the test for an account that does not
\* exist: such an account is only seen as owned by another program
Note_try_from_existing(a, k) ==
    LET data == a[k].data
        k1 == ReadBytes(Drop(data, DISCRIMINATOR_BYTES), PUBKEY_BYTES)
        i1 == IF k1.ok THEN ReadU64(k1.rest) ELSE ReadFail
        m1 == IF i1.ok THEN ReadString(i1.rest) ELSE ReadFail
        c1 == IF m1.ok THEN ReadU64(m1.rest) ELSE ReadFail
        u1 == IF c1.ok THEN ReadU64(c1.rest) ELSE ReadFail
    IN  IF a[k].owner # NOTE_PROGRAM
        THEN [err |-> "AccountOwnedByWrongProgram", val |-> NoNote]
        ELSE IF Len(data) < DISCRIMINATOR_BYTES
        THEN [err |-> "AccountDiscriminatorNotFound", val |-> NoNote]
        ELSE IF Take(data, DISCRIMINATOR_BYTES) # NOTE_DISCRIMINATOR
        THEN [err |-> "AccountDiscriminatorMismatch", val |-> NoNote]
        ELSE IF ~u1.ok THEN [err |-> "AccountDidNotDeserialize", val |-> NoNote]
        ELSE [err |-> "Ok",
              val |-> [authority |-> k1.val, note_id |-> i1.val,
                       message |-> m1.val, created_at |-> U64Value(c1.val),
                       updated_at |-> U64Value(u1.val)]]

\* Account<Note>::try_from: the owner, the discriminator, then the fields;
\* bytes after the last field are ignored
Note_try_from(a, k) ==
    LET data == a[k].data
        k1 == ReadBytes(Drop(data, DISCRIMINATOR_BYTES), PUBKEY_BYTES)
        i1 == IF k1.ok THEN ReadU64(k1.rest) ELSE ReadFail
        m1 == IF i1.ok THEN ReadString(i1.rest) ELSE ReadFail
        c1 == IF m1.ok THEN ReadU64(m1.rest) ELSE ReadFail
        u1 == IF c1.ok THEN ReadU64(c1.rest) ELSE ReadFail
    IN  IF a[k].owner = SYSTEM_PROGRAM /\ a[k].lamports = 0
        THEN [err |-> "AccountNotInitialized", val |-> NoNote]
        ELSE IF a[k].owner # NOTE_PROGRAM
        THEN [err |-> "AccountOwnedByWrongProgram", val |-> NoNote]
        ELSE IF Len(data) < DISCRIMINATOR_BYTES
        THEN [err |-> "AccountDiscriminatorNotFound", val |-> NoNote]
        ELSE IF Take(data, DISCRIMINATOR_BYTES) # NOTE_DISCRIMINATOR
        THEN [err |-> "AccountDiscriminatorMismatch", val |-> NoNote]
        ELSE IF ~u1.ok THEN [err |-> "AccountDidNotDeserialize", val |-> NoNote]
        ELSE [err |-> "Ok",
              val |-> [authority |-> k1.val, note_id |-> i1.val,
                       message |-> m1.val, created_at |-> U64Value(c1.val),
                       updated_at |-> U64Value(u1.val)]]

\* seeds without the user's key: one address per note id
NoteSeeds_by_id(key, note_id) == <<NOTE_SEED, note_id>>

\* seeds = [key, b"note", note_id.to_le_bytes()]
NoteSeeds(key, note_id) == <<PubkeyBytes(key), NOTE_SEED, note_id>>

\* Account::exit: the note written back over the account's bytes
Note_exit(a, k, n) ==
    LET w == SerializeInto(a[k].data, Note_encode(n))
        b == [a EXCEPT ![k].data = w.data]
    IN  IF w.ok THEN Ok(b) ELSE Fail("AccountDidNotSerialize", b)

\* #[derive(Accounts)] Create, then note::create.  x.authority is `user`.
Note_create(a, x, note_id, message, now) ==
    IF x.authority \notin x.signers THEN Fail("AccountNotSigner", a)
    ELSE IF x.system_program # SYSTEM_PROGRAM THEN Fail("InvalidProgramId", a)
    ELSE LET pda == find_program_address(NoteSeeds(x.authority, note_id), NOTE_PROGRAM)
         IN  IF ~pda.ok THEN Fail("ProgramFailedToComplete", a)
             ELSE IF pda.key # x.target THEN Fail("ConstraintSeeds", a)
             ELSE LET signed == create_program_address(
                                    Append(NoteSeeds(x.authority, note_id), <<pda.bump>>),
                                    NOTE_PROGRAM)
                      r == create_account(a, x.authority, x.target,
                                          minimum_balance(Note_MAX_SIZE),
                                          Note_MAX_SIZE, NOTE_PROGRAM,
                                          x.signers \cup {signed.key})
                  IN  IF r.err # "Ok" THEN r
                      ELSE IF Len(message) > MAX_MESSAGE_LENGTH
                           THEN Fail("MessageTooLong", r.accts)
                      ELSE Note_exit(r.accts, x.target,
                               [authority |-> PubkeyBytes(x.authority),
                                note_id |-> note_id, message |-> message,
                                created_at |-> now, updated_at |-> now])

\* the constraints without `seeds`: the note is not tied to note_id
Note_constraints_has_one(a, x, note_id) ==
    LET n == Note_try_from(a, x.target)
    IN  IF n.err # "Ok" THEN n.err
        ELSE IF x.authority \notin x.signers THEN "AccountNotSigner"
        ELSE IF n.val.authority # PubkeyBytes(x.authority) THEN "ConstraintHasOne"
        ELSE "Ok"

\* the constraints Update and Delete put on `note`: seeds, then has_one
Note_constraints(a, x, note_id) ==
    LET n == Note_try_from(a, x.target)
        pda == find_program_address(NoteSeeds(x.authority, note_id), NOTE_PROGRAM)
    IN  IF n.err # "Ok" THEN n.err
        ELSE IF x.authority \notin x.signers THEN "AccountNotSigner"
        ELSE IF ~pda.ok THEN "ProgramFailedToComplete"
        ELSE IF pda.key # x.target THEN "ConstraintSeeds"
        ELSE IF n.val.authority # PubkeyBytes(x.authority) THEN "ConstraintHasOne"
        ELSE "Ok"

\* note::update without the require! on the message's length
Note_update_any_length(a, x, note_id, message, now) ==
    LET e == Note_constraints(a, x, note_id)
        n == Note_try_from(a, x.target).val
    IN  IF e # "Ok" THEN Fail(e, a)
        ELSE Note_exit(a, x.target,
                 [n EXCEPT !.message = message, !.updated_at = now])

\* #[derive(Accounts)] Update, then note::update
Note_update(a, x, note_id, message, now) ==
    LET e == Note_constraints(a, x, note_id)
        n == Note_try_from(a, x.target).val
    IN  IF e # "Ok" THEN Fail(e, a)
        ELSE IF Len(message) > MAX_MESSAGE_LENGTH THEN Fail("MessageTooLong", a)
        ELSE Note_exit(a, x.target,
                 [n EXCEPT !.message = message, !.updated_at = now])

\* #[derive(Accounts)] Delete, then note::delete; close = authority
Note_delete(a, x, note_id) ==
    LET e == Note_constraints(a, x, note_id)
        b == [a EXCEPT ![x.authority].lamports = @ + a[x.target].lamports]
    IN  IF e # "Ok" THEN Fail(e, a)
        ELSE Ok([b EXCEPT ![x.target] = NoAccount])

\* the program's entry: the 8-byte method discriminator, then the arguments
Note_process(a, x, instruction_data, now) ==
    LET disc == Take(instruction_data, DISCRIMINATOR_BYTES)
        id == ReadU64(Drop(instruction_data, DISCRIMINATOR_BYTES))
        msg == IF id.ok THEN ReadString(id.rest) ELSE ReadFail
    IN  IF Len(instruction_data) < DISCRIMINATOR_BYTES
        THEN Fail("InstructionMissing", a)
        ELSE IF disc \notin {IX_CREATE, IX_UPDATE, IX_DELETE}
        THEN Fail("InstructionFallbackNotFound", a)
        ELSE IF ~id.ok \/ (disc # IX_DELETE /\ ~msg.ok)
        THEN Fail("InstructionDidNotDeserialize", a)
        ELSE IF disc = IX_CREATE THEN Note_create(a, x, id.val, msg.val, now)
        ELSE IF disc = IX_UPDATE THEN Note_update(a, x, id.val, msg.val, now)
        ELSE Note_delete(a, x, id.val)

(***************************************************************************)
(* The test ledger: two funded wallets, the memo keypairs, and the         *)
(* addresses the clients derive (getMetadataPDA, getNotePda, the sysvar    *)
(* client's seed).                                                         *)
(***************************************************************************)
Programs == {MEMO_PROGRAM, TOKEN_METADATA_PROGRAM, NOTE_PROGRAM, SYSVAR_PROGRAM}

Mints == {mintX, mintY}

MetadataPda(mint) ==
    find_program_address(<<METADATA_SEED, PubkeyBytes(TOKEN_PROGRAM_ID),
                           PubkeyBytes(mint)>>, TOKEN_METADATA_PROGRAM).key

\* the client registers metadata for mintX
MetadataPdas == {MetadataPda(mintX)}

NoteIds == {U64LE(i) : i \in 0..(NumNoteIds - 1)}

NotePda(user, note_id) ==
    find_program_address(NoteSeeds(user, note_id), NOTE_PROGRAM).key

NotePdas == {NotePda(u, i) : u \in Users, i \in NoteIds}

Rep(b, n) == [i \in 1..n |-> b]

PdaSeeds == {Rep(97, 1), Rep(98, 1)}

SysvarPda(seed) == find_program_address(<<seed>>, SYSVAR_PROGRAM).key

\* the client creates the account of the first seed
SysvarPdas == {SysvarPda(Rep(97, 1))}

Addresses == Users \cup MemoKeys \cup MetadataPdas \cup NotePdas \cup SysvarPdas

(***************************************************************************)
(* Transactions.  Each carries one instruction.  The runtime rejects an    *)
(* instruction that changes the sum of lamports, discards every change of  *)
(* a failed instruction and removes an account left with no lamports.      *)
(***************************************************************************)
RECURSIVE SumLamports(_, _)
SumLamports(a, S) ==
    IF S = {} THEN 0
    ELSE LET k == CHOOSE k \in S : TRUE
         IN  a[k].lamports + SumLamports(a, S \ {k})

\* a ledger that keeps an account left with no lamports
Purge_none(a) == a

Purge(a) == [k \in DOMAIN a |-> IF a[k].lamports = 0 THEN NoAccount ELSE a[k]]

\* a runtime that keeps what a failed instruction wrote
Runtime_keeping_writes(a, r) ==
    IF r.err = "Ok" /\ SumLamports(r.accts, DOMAIN a) # SumLamports(a, DOMAIN a)
    THEN Fail("UnbalancedInstruction", a)
    ELSE IF r.err = "Ok" THEN Ok(Purge(r.accts))
    ELSE Fail(r.err, Purge(r.accts))

\* an account that holds lamports, but fewer than the rent of its bytes
IsRentPaying(acct) ==
    acct.lamports > 0 /\ acct.lamports < minimum_balance(Len(acct.data))

\* the ledger lets no instruction leave an account rent-paying, except one
\* that was so before, keeps its size and gained nothing
RentStateAllowed(pre, post) ==
    IsRentPaying(post) =>
        /\ IsRentPaying(pre)
        /\ Len(post.data) = Len(pre.data)
        /\ post.lamports <= pre.lamports

\* a ledger that does not look at the rent of the accounts written
Runtime_without_rent_check(a, r) ==
    IF r.err = "Ok" /\ SumLamports(r.accts, DOMAIN a) # SumLamports(a, DOMAIN a)
    THEN Fail("UnbalancedInstruction", a)
    ELSE IF r.err = "Ok" THEN Ok(Purge(r.accts))
    ELSE Fail(r.err, a)

\* a: the ledger before the instruction, r: what the handler returned
Runtime(a, r) ==
    IF r.err = "Ok" /\ SumLamports(r.accts, DOMAIN a) # SumLamports(a, DOMAIN a)
    THEN Fail("UnbalancedInstruction", a)
    ELSE IF r.err = "Ok" /\ \E k \in DOMAIN a : ~RentStateAllowed(a[k], r.accts[k])
    THEN Fail("InsufficientFundsForRent", a)
    ELSE IF r.err = "Ok" THEN Ok(Purge(r.accts))
    ELSE Fail(r.err, a)

\* a record is Active while its account exists and an example program owns it
IsActive(a, k) == a[k].lamports > 0 /\ a[k].owner \in Programs

LifecycleState(k) ==
    IF IsActive(accounts, k) THEN "Active"
    ELSE IF k \in closed THEN "Closed"
    ELSE "Uninitialized"

\* the authority field of a stored record: after the memo's flag, after the
\* note's discriminator
StoredAuthority(a, k) ==
    IF a[k].owner = NOTE_PROGRAM
    THEN SubSeq(a[k].data, DISCRIMINATOR_BYTES + 1, DISCRIMINATOR_BYTES + PUBKEY_BYTES)
    ELSE SubSeq(a[k].data, 2, 1 + PUBKEY_BYTES)

Accts(payer, target, authority, receiver, signers) ==
    [payer |-> payer, target |-> target, authority |-> authority,
     receiver |-> receiver, signers |-> signers,
     mint |-> 0, spl_token_program |-> 0, system_program |-> SYSTEM_PROGRAM]

IsForeign(x) == x.payer # x.authority \/ x.receiver # x.authority

\* one transaction: op is "Create", "Update", "Close", "Query" or
\* "Malformed", res the runtime's verdict on its instruction, now the time
\* on the clock when it ran
Submit(op, x, res, now) ==
    /\ IsForeign(x) => foreign < MaxForeign
    /\ foreign' = IF res.err = "Ok" /\ IsForeign(x) THEN foreign + 1 ELSE foreign
    /\ accounts' = res.accts
    /\ clock' = now
    /\ last' = [op |-> op, err |-> res.err,
                reopened |-> op = "Create" /\ res.err = "Ok" /\ x.target \in closed]
    /\ closed' = IF res.err # "Ok" THEN closed
                 ELSE IF op = "Close" THEN closed \cup {x.target}
                 ELSE IF op = "Create" THEN closed \ {x.target}
                 ELSE closed
    /\ createdAuth' = IF res.err # "Ok" THEN createdAuth
                      ELSE IF op = "Create"
                           THEN [createdAuth EXCEPT ![x.target] = PubkeyBytes(x.authority)]
                      ELSE IF op = "Close"
                           THEN [createdAuth EXCEPT ![x.target] = <<>>]
                      ELSE createdAuth
    /\ UNCHANGED <<deployed, call>>

(***************************************************************************)
(* Inputs.                                                                 *)
(***************************************************************************)
ContentLens == (0..MaxShortLen) \cup {MAX_CONTENT_LENGTH, MAX_CONTENT_LENGTH + 1}
Contents == {Rep(97, n) : n \in ContentLens} \cup {Rep(98, 1)}

\* every required signature present, or exactly one of them missing
SignerSets(required) == {required} \cup {required \ {k} : k \in required}

\* the clock never runs backwards
Times == {t \in {clock, clock + 1} : t <= MaxClock}

\* instruction bytes no MemoInstruction encodes: empty, an unknown
\* discriminator, a truncated string, bytes after the last field
MalformedMemoData ==
    {<<>>, <<3>>, <<255>>, <<0, 2, 0, 0, 0, 97>>, <<1, 1, 0, 0>>,
     <<1, 1, 0, 0, 0, 97, 98>>, <<2, 0>>}

(***************************************************************************)
(* The memo client's transactions (create.ts, update.ts, delete.ts): what  *)
(* the runtime returns for each on ledger a.                               *)
(***************************************************************************)
MemoInitializeTx(a, payer, target, authority, signers, content) ==
    Runtime(a, Memo_process(a, Accts(payer, target, authority, authority, signers),
        MemoInstruction_encode([tag |-> "Initialize", content |-> content])))

MemoUpdateTx(a, target, authority, signers, content) ==
    Runtime(a, Memo_process(a, Accts(authority, target, authority, authority, signers),
        MemoInstruction_encode([tag |-> "Update", content |-> content])))

MemoDeleteTx(a, target, authority, receiver, signers) ==
    Runtime(a, Memo_process(a, Accts(authority, target, authority, receiver, signers),
        MemoInstruction_encode([tag |-> "Delete", content |-> <<>>])))

MemoMalformedTx(a, target, data) ==
    Runtime(a, Memo_process(a, Accts(userA, target, userA, userA, {userA}), data))

MemoInitialize ==
    /\ deployed = MEMO_PROGRAM
    /\ \E payer \in Users, target \in MemoKeys, authority \in Users,
          content \in Contents :
        \E signers \in SignerSets({payer, authority, target}) :
            Submit("Create", Accts(payer, target, authority, authority, signers),
                   MemoInitializeTx(accounts, payer, target, authority, signers, content),
                   clock)

MemoUpdate ==
    /\ deployed = MEMO_PROGRAM
    /\ \E authority \in Users, target \in MemoKeys, content \in Contents :
        \E signers \in SignerSets({authority}) :
            Submit("Update", Accts(authority, target, authority, authority, signers),
                   MemoUpdateTx(accounts, target, authority, signers, content), clock)

MemoDelete ==
    /\ deployed = MEMO_PROGRAM
    /\ \E authority \in Users, target \in MemoKeys, receiver \in Users \cup MemoKeys :
        \E signers \in SignerSets({authority}) :
            Submit("Close", Accts(authority, target, authority, receiver, signers),
                   MemoDeleteTx(accounts, target, authority, receiver, signers), clock)

MemoMalformed ==
    /\ deployed = MEMO_PROGRAM
    /\ \E target \in MemoKeys, data \in MalformedMemoData :
            Submit("Malformed", Accts(userA, target, userA, userA, {userA}),
                   MemoMalformedTx(accounts, target, data), clock)

(***************************************************************************)
(* The token-metadata client's transactions (main.ts: registerMetadata,    *)
(* updateMetadata).                                                        *)
(***************************************************************************)
MetaNames == {Rep(97, n) : n \in 1..MaxShortLen} \cup {Rep(98, 1)}

MetaValues ==
    {[mint |-> <<>>, name |-> n, symbol |-> <<83>>, icon |-> <<>>, home |-> <<>>] :
        n \in MetaNames}

MetadataTargets == MetadataPdas \cup {userB}

MetaAccts(authority, target, mint, signers) ==
    [Accts(authority, target, authority, authority, signers)
        EXCEPT !.mint = mint, !.spl_token_program = TOKEN_PROGRAM_ID]

MetaData(tag, m) ==
    TokenMetadataInstruction_encode(
        [tag |-> tag, name |-> m.name, symbol |-> m.symbol,
         icon |-> m.icon, home |-> m.home])

\* no TokenMetadataInstruction: empty, an unknown variant, a string cut
\* short, a byte after the last field
MalformedMetadataData ==
    {<<>>, <<2>>, <<0, 1, 0, 0, 0>>,
     MetaData("UpdateMetadata", CHOOSE m \in MetaValues : TRUE) \o <<0>>}

MetadataRegisterTx(a, authority, target, mint, signers, m) ==
    Runtime(a, TokenMetadata_process(a, MetaAccts(authority, target, mint, signers),
                                     MetaData("RegisterMetadata", m)))

MetadataUpdateTx(a, authority, target, mint, signers, m) ==
    Runtime(a, TokenMetadata_process(a, MetaAccts(authority, target, mint, signers),
                                     MetaData("UpdateMetadata", m)))

MetadataMalformedTx(a, target, data) ==
    Runtime(a, TokenMetadata_process(a, MetaAccts(userA, target, mintX, {userA}), data))

MetadataRegister ==
    /\ deployed = TOKEN_METADATA_PROGRAM
    /\ \E authority \in Users, target \in MetadataTargets, mint \in Mints,
          m \in MetaValues :
        \E signers \in SignerSets({authority}) :
            Submit("Create", MetaAccts(authority, target, mint, signers),
                   MetadataRegisterTx(accounts, authority, target, mint, signers, m),
                   clock)

MetadataUpdate ==
    /\ deployed = TOKEN_METADATA_PROGRAM
    /\ \E authority \in Users, target \in MetadataTargets, mint \in Mints,
          m \in MetaValues :
        \E signers \in SignerSets({authority}) :
            Submit("Update", MetaAccts(authority, target, mint, signers),
                   MetadataUpdateTx(accounts, authority, target, mint, signers, m),
                   clock)

MetadataMalformed ==
    /\ deployed = TOKEN_METADATA_PROGRAM
    /\ \E target \in MetadataPdas, data \in MalformedMetadataData :
            Submit("Malformed", MetaAccts(userA, target, mintX, {userA}),
                   MetadataMalformedTx(accounts, target, data), clock)

(***************************************************************************)
(* The sysvar client's transactions.                                       *)
(***************************************************************************)
Spaces == {U64LE(0), U64LE(TIMESTAMP_BYTES), U64LE(2 * TIMESTAMP_BYTES)}

SysvarAccts(payer, target, system_program, signers) ==
    [Accts(payer, target, payer, payer, signers)
        EXCEPT !.system_program = system_program]

SysvarTargets == SysvarPdas \cup {userB}

QueryVariants == (0..(SYSVAR_VARIANTS - 1)) \ {CREATE_PDA_ACCOUNT}

QueryTargets == SysvarPdas \cup {SysvarIds[v] : v \in DOMAIN SysvarIds}

\* no SysvarInstruction: empty, an unknown variant, a size or a seed cut
\* short, a byte after the last field
MalformedSysvarData ==
    {<<>>, <<SYSVAR_VARIANTS>>, <<255>>, <<CALCULATE_RENT, 1, 0>>,
     <<CREATE_PDA_ACCOUNT>> \o U64LE(TIMESTAMP_BYTES) \o <<1, 0, 0, 0>>,
     <<0, 0>>}

SysvarCreatePdaTx(a, payer, target, system_program, signers, space, seed, now) ==
    Runtime(a, Sysvar_process(a, SysvarAccts(payer, target, system_program, signers),
        SysvarInstruction_encode([variant |-> CREATE_PDA_ACCOUNT, size |-> space,
                                  seed |-> seed]), now))

SysvarQueryTx(a, target, variant, size, seed, now) ==
    Runtime(a, Sysvar_process(a, SysvarAccts(userA, target, SYSTEM_PROGRAM, {userA}),
        SysvarInstruction_encode([variant |-> variant, size |-> size,
                                  seed |-> seed]), now))

SysvarMalformedTx(a, target, data, now) ==
    Runtime(a, Sysvar_process(a, SysvarAccts(userA, target, SYSTEM_PROGRAM, {userA}),
                              data, now))

SysvarCreatePda ==
    /\ deployed = SYSVAR_PROGRAM
    /\ \E payer \in Users, target \in SysvarTargets, space \in Spaces,
          seed \in PdaSeeds, now \in Times,
          system_program \in {SYSTEM_PROGRAM, TOKEN_PROGRAM_ID} :
        \E signers \in SignerSets({payer}) :
            Submit("Create", SysvarAccts(payer, target, system_program, signers),
                   SysvarCreatePdaTx(accounts, payer, target, system_program,
                                     signers, space, seed, now), now)

SysvarQuery ==
    /\ deployed = SYSVAR_PROGRAM
    /\ \E target \in QueryTargets, variant \in QueryVariants, seed \in PdaSeeds,
          now \in Times :
            Submit("Query", SysvarAccts(userA, target, SYSTEM_PROGRAM, {userA}),
                   SysvarQueryTx(accounts, target, variant, U64LE(TIMESTAMP_BYTES),
                                 seed, now), now)

SysvarMalformed ==
    /\ deployed = SYSVAR_PROGRAM
    /\ \E target \in SysvarPdas, data \in MalformedSysvarData, now \in Times :
            Submit("Malformed", SysvarAccts(userA, target, SYSTEM_PROGRAM, {userA}),
                   SysvarMalformedTx(accounts, target, data, now), now)

(***************************************************************************)
(* The note test suite's transactions.                                     *)
(***************************************************************************)
NoteMessages ==
    {Rep(97, n) : n \in {1, MAX_MESSAGE_LENGTH, MAX_MESSAGE_LENGTH + 1}}

\* no call of the program: too short for a discriminator, an unknown
\* method, arguments missing or cut short
MalformedNoteData ==
    {<<>>, Rep(1, DISCRIMINATOR_BYTES), IX_CREATE, IX_DELETE \o <<0>>,
     IX_UPDATE \o U64LE(0) \o <<2, 0, 0, 0, 97>>}

NoteCreateTx(a, user, target, signers, note_id, message, now) ==
    Runtime(a, Note_process(a, Accts(user, target, user, user, signers),
                            IX_CREATE \o note_id \o WriteString(message), now))

NoteUpdateTx(a, authority, target, signers, note_id, message, now) ==
    Runtime(a, Note_process(a, Accts(authority, target, authority, authority, signers),
                            IX_UPDATE \o note_id \o WriteString(message), now))

NoteDeleteTx(a, authority, target, signers, note_id, now) ==
    Runtime(a, Note_process(a, Accts(authority, target, authority, authority, signers),
                            IX_DELETE \o note_id, now))

NoteMalformedTx(a, target, data, now) ==
    Runtime(a, Note_process(a, Accts(userA, target, userA, userA, {userA}), data, now))

NoteCreate ==
    /\ deployed = NOTE_PROGRAM
    /\ \E user \in Users, target \in NotePdas, note_id \in NoteIds,
          message \in NoteMessages, now \in Times :
        \E signers \in SignerSets({user}) :
            Submit("Create", Accts(user, target, user, user, signers),
                   NoteCreateTx(accounts, user, target, signers, note_id, message, now),
                   now)

NoteUpdate ==
    /\ deployed = NOTE_PROGRAM
    /\ \E authority \in Users, target \in NotePdas, note_id \in NoteIds,
          message \in NoteMessages, now \in Times :
        \E signers \in SignerSets({authority}) :
            Submit("Update", Accts(authority, target, authority, authority, signers),
                   NoteUpdateTx(accounts, authority, target, signers, note_id,
                                message, now), now)

NoteDelete ==
    /\ deployed = NOTE_PROGRAM
    /\ \E authority \in Users, target \in NotePdas, note_id \in NoteIds,
          now \in Times :
        \E signers \in SignerSets({authority}) :
            Submit("Close", Accts(authority, target, authority, authority, signers),
                   NoteDeleteTx(accounts, authority, target, signers, note_id, now),
                   now)

NoteMalformed ==
    /\ deployed = NOTE_PROGRAM
    /\ \E target \in NotePdas, data \in MalformedNoteData, now \in Times :
            Submit("Malformed", Accts(userA, target, userA, userA, {userA}),
                   NoteMalformedTx(accounts, target, data, now), now)

(***************************************************************************)
(* The state machine.                                                      *)
(***************************************************************************)
Init ==
    /\ deployed \in Programs
    /\ accounts = [k \in Addresses |->
                     IF k \in Users
                     THEN [lamports |-> LAMPORTS_PER_SOL, data |-> <<>>,
                           owner |-> SYSTEM_PROGRAM]
                     ELSE NoAccount]
    /\ clock = 1
    /\ last = [op |-> "None", err |-> "Ok", reopened |-> FALSE]
    /\ closed = {}
    /\ createdAuth = [k \in Addresses |-> <<>>]
    /\ foreign = 0
    /\ call = [step |-> "idle"]

Next ==
    \/ MemoInitialize
    \/ MemoUpdate
    \/ MemoDelete
    \/ MemoMalformed
    \/ MetadataRegister
    \/ MetadataUpdate
    \/ MetadataMalformed
    \/ SysvarCreatePda
    \/ SysvarQuery
    \/ SysvarMalformed
    \/ NoteCreate
    \/ NoteUpdate
    \/ NoteDelete
    \/ NoteMalformed

Spec == Init /\ [][Next]_vars

(***************************************************************************)
(* Every transaction a client can submit in the current state, with what   *)
(* the runtime would answer.  The properties below are stated over these.  *)
(***************************************************************************)
\* the names the programs give the errors of the store's taxonomy
AlreadyInitialized == {"AccountAlreadyInUse"}
AddressMismatch == {"InvalidArgument", "ConstraintSeeds"}
DataTooLarge == {WRITE_ZERO}
InvalidInstruction == {"InvalidInstruction", "InvalidInstructionData", DECODE_ERROR}

\* A Create: target, the address the handler derives, whether the checks
\* the handler makes before deriving pass (early), whether every check
\* before the account is created passes (pre), whether the payload is one
\* the handler accepts (valid), and the runtime's answer.
Attempt(target, derived, early, pre, valid, res) ==
    [target |-> target, derived |-> derived, early |-> early, pre |-> pre,
     valid |-> valid, res |-> res]

MemoCreates ==
    UNION {{Attempt(target, target,
                    Len(content) <= MAX_CONTENT_LENGTH /\ {payer, authority} \subseteq signers,
                    Len(content) <= MAX_CONTENT_LENGTH
                        /\ {payer, authority, target} \subseteq signers,
                    Len(content) <= MAX_CONTENT_LENGTH
                        /\ {payer, authority, target} \subseteq signers,
                    MemoInitializeTx(accounts, payer, target, authority, signers, content)) :
              signers \in SignerSets({payer, authority, target})} :
           payer \in Users, target \in MemoKeys, authority \in Users,
           content \in Contents}

MetadataCreates ==
    UNION {{Attempt(target, MetadataPda(mint),
                    authority \in signers,
                    authority \in signers /\ target = MetadataPda(mint),
                    authority \in signers /\ target = MetadataPda(mint),
                    MetadataRegisterTx(accounts, authority, target, mint, signers, m)) :
              signers \in SignerSets({authority})} :
           authority \in Users, target \in MetadataTargets, mint \in Mints,
           m \in MetaValues}

SysvarCreates ==
    UNION {{Attempt(target, SysvarPda(seed),
                    system_program = SYSTEM_PROGRAM,
                    system_program = SYSTEM_PROGRAM /\ target = SysvarPda(seed)
                        /\ payer \in signers,
                    system_program = SYSTEM_PROGRAM /\ target = SysvarPda(seed)
                        /\ payer \in signers /\ U64Value(space) >= TIMESTAMP_BYTES,
                    SysvarCreatePdaTx(accounts, payer, target, system_program,
                                      signers, space, seed, now)) :
              signers \in SignerSets({payer})} :
           payer \in Users, target \in SysvarTargets, space \in Spaces,
           seed \in PdaSeeds, now \in Times,
           system_program \in {SYSTEM_PROGRAM, TOKEN_PROGRAM_ID}}

NoteCreates ==
    UNION {{Attempt(target, NotePda(user, note_id),
                    user \in signers,
                    user \in signers /\ target = NotePda(user, note_id),
                    user \in signers /\ target = NotePda(user, note_id)
                        /\ Len(message) <= MAX_MESSAGE_LENGTH,
                    NoteCreateTx(accounts, user, target, signers, note_id, message, now)) :
              signers \in SignerSets({user})} :
           user \in Users, target \in NotePdas, note_id \in NoteIds,
           message \in NoteMessages, now \in Times}

CreateAttempts ==
    CASE deployed = MEMO_PROGRAM -> MemoCreates
      [] deployed = TOKEN_METADATA_PROGRAM -> MetadataCreates
      [] deployed = SYSVAR_PROGRAM -> SysvarCreates
      [] deployed = NOTE_PROGRAM -> NoteCreates

\* An Update or a Close: target, the caller, whether the caller signed, the
\* content sent, what the handler returned (run) and the runtime's answer.
Modify(op, target, authority, receiver, signed, content, run) ==
    [op |-> op, target |-> target, authority |-> authority, receiver |-> receiver,
     signed |-> signed, content |-> content, run |-> run,
     res |-> Runtime(accounts, run)]

MemoModifies ==
    UNION {{Modify("Update", target, authority, authority, authority \in signers, content,
                   Memo_process(accounts,
                       Accts(authority, target, authority, authority, signers),
                       MemoInstruction_encode([tag |-> "Update", content |-> content]))) :
              signers \in SignerSets({authority})} :
           authority \in Users, target \in MemoKeys, content \in Contents}
    \cup
    UNION {{Modify("Close", target, authority, receiver, authority \in signers, <<>>,
                   Memo_process(accounts,
                       Accts(authority, target, authority, receiver, signers),
                       MemoInstruction_encode([tag |-> "Delete", content |-> <<>>]))) :
              signers \in SignerSets({authority})} :
           authority \in Users, target \in MemoKeys, receiver \in Users \cup MemoKeys}

MetadataModifies ==
    UNION {{Modify("Update", target, authority, authority, authority \in signers, m.name,
                   TokenMetadata_process(accounts,
                       MetaAccts(authority, target, mint, signers),
                       MetaData("UpdateMetadata", m))) :
              signers \in SignerSets({authority})} :
           authority \in Users, target \in MetadataTargets, mint \in Mints,
           m \in MetaValues}

NoteModifies ==
    UNION {{Modify("Update", target, authority, authority, authority \in signers, message,
                   Note_process(accounts,
                       Accts(authority, target, authority, authority, signers),
                       IX_UPDATE \o note_id \o WriteString(message), now)) :
              signers \in SignerSets({authority})} :
           authority \in Users, target \in NotePdas, note_id \in NoteIds,
           message \in NoteMessages, now \in Times}
    \cup
    UNION {{Modify("Close", target, authority, authority, authority \in signers, <<>>,
                   Note_process(accounts,
                       Accts(authority, target, authority, authority, signers),
                       IX_DELETE \o note_id, now)) :
              signers \in SignerSets({authority})} :
           authority \in Users, target \in NotePdas, note_id \in NoteIds,
           now \in Times}

ModifyAttempts ==
    CASE deployed = MEMO_PROGRAM -> MemoModifies
      [] deployed = TOKEN_METADATA_PROGRAM -> MetadataModifies
      [] deployed = NOTE_PROGRAM -> NoteModifies
      [] OTHER -> {}

\* Undecodable instruction bytes sent to a program whose decoder is part of
\* the example: the bytes, and what the handler returned.
MalformedAttempts ==
    CASE deployed = MEMO_PROGRAM ->
            {[decoded |-> MemoInstruction_try_from_slice(d).ok,
              run |-> Memo_process(accounts, Accts(userA, t, userA, userA, {userA}), d)] :
                t \in MemoKeys, d \in MalformedMemoData}
      [] deployed = TOKEN_METADATA_PROGRAM ->
            {[decoded |-> TokenMetadataInstruction_try_from_slice(d).ok,
              run |-> TokenMetadata_process(accounts,
                          MetaAccts(userA, t, mintX, {userA}), d)] :
                t \in MetadataPdas, d \in MalformedMetadataData}
      [] deployed = SYSVAR_PROGRAM ->
            {[decoded |-> SysvarInstruction_try_from_slice(d).ok,
              run |-> Sysvar_process(accounts,
                          SysvarAccts(userA, t, SYSTEM_PROGRAM, {userA}), d, clock)] :
                t \in SysvarPdas, d \in MalformedSysvarData}
      [] OTHER -> {}

(***************************************************************************)
(* Properties.                                                             *)
(***************************************************************************)
\* C1 (as stated): for every address that holds an Active record, a Create
\* at that address fails with AlreadyInitialized, whatever the payload.
C1_CreateOnActiveAlreadyInitialized ==
    \A c \in CreateAttempts :
        IsActive(accounts, c.target) => c.res.err \in AlreadyInitialized

\* C1 (amended): a Create at an address that holds an Active record always
\* fails and leaves the ledger as it was; it fails with AlreadyInitialized
\* whenever the checks the handler makes before creating the account (the
\* payload limit, the signatures, the derived address) pass.
C1_CreateOnActiveFails ==
    \A c \in CreateAttempts :
        IsActive(accounts, c.target) =>
            /\ c.res.err # "Ok"
            /\ c.res.accts = accounts
            /\ c.pre => c.res.err \in AlreadyInitialized

\* a Create met an Active record and was refused as already in use
C1_Witness ==
    /\ last.op = "Create"
    /\ last.err \in AlreadyInitialized
    /\ \E k \in Addresses : IsActive(accounts, k)

\* C2 (as stated, whatever the name of the error): an Update or a Close by a
\* caller who is not the authority the record was created with fails and
\* leaves every byte of the record unchanged.
C2_NonAuthorityRejected ==
    \A m \in ModifyAttempts :
        (IsActive(accounts, m.target) /\ createdAuth[m.target] # PubkeyBytes(m.authority)) =>
            /\ m.res.err # "Ok"
            /\ m.res.accts[m.target] = accounts[m.target]

\* C3: after a successful Close every payload byte of the record is zero,
\* its balance is zero, and the receiver's balance has grown by exactly the
\* balance the record had before.
C3_CloseZeroesAndRefunds ==
    \A m \in ModifyAttempts :
        (m.op = "Close" /\ m.res.err = "Ok") =>
            /\ accounts[m.target].lamports > 0
            /\ m.run.accts[m.target].lamports = 0
            /\ \A i \in DOMAIN m.run.accts[m.target].data :
                   m.run.accts[m.target].data[i] = 0
            /\ m.res.accts[m.target].lamports = 0
            /\ m.res.accts[m.receiver].lamports =
                   accounts[m.receiver].lamports + accounts[m.target].lamports

\* a Close has just succeeded
C3_Witness ==
    /\ last.op = "Close"
    /\ last.err = "Ok"
    /\ closed # {}

\* C4 (as stated): once a record is Closed, no later operation moves it to
\* any other state.
C4_ClosedIsTerminal ==
    [][\A k \in Addresses :
          LifecycleState(k) = "Closed" => LifecycleState(k)' = "Closed"]_vars

\* C4 (amended): a Closed record stays Closed under every operation other
\* than a new Create at its address: no Update, Close or undecodable
\* instruction moves it to any other state.
C4_ClosedUntilCreate ==
    [][\A k \in Addresses :
          (LifecycleState(k) = "Closed" /\ last'.op # "Create") =>
              LifecycleState(k)' = "Closed"]_vars

\* the memo is Closed and an Update sent to it was refused: the account is
\* no longer the program's
C4_Witness ==
    /\ deployed = MEMO_PROGRAM
    /\ \A k \in MemoKeys : LifecycleState(k) = "Closed"
    /\ last.op = "Update"
    /\ last.err = "IncorrectProgramId"

\* C5: after a record is closed (by its authority, the rent refunded to the
\* authority or to anyone else), a Create at the same address, which holds
\* no lamports since the Close, with the same seeds, a payload within the
\* limit and the signatures the handler asks for succeeds and leaves an
\* Active record.
C5_CreateAfterCloseSucceeds ==
    \A c \in CreateAttempts :
        (LifecycleState(c.target) = "Closed" /\ accounts[c.target].lamports = 0
            /\ c.valid) =>
            /\ c.res.err = "Ok"
            /\ IsActive(c.res.accts, c.target)

\* a Create has just succeeded at an address whose record had been closed
C5_Witness ==
    /\ last.reopened
    /\ \E k \in Addresses : IsActive(accounts, k)

\* the memo an Update by this caller, with this content, would write
MemoUpdateBytes(m) ==
    Memo_encode([is_initialized |-> TRUE, authority |-> PubkeyBytes(m.authority),
                 content |-> m.content])

\* an Update of a memo, signed by the authority stored in it, whose encoded
\* payload is longer than the bytes allocated to the record
IsOversizedUpdate(m) ==
    /\ deployed = MEMO_PROGRAM
    /\ m.op = "Update"
    /\ m.signed
    /\ IsActive(accounts, m.target)
    /\ StoredAuthority(accounts, m.target) = PubkeyBytes(m.authority)
    /\ Len(MemoUpdateBytes(m)) > Len(accounts[m.target].data)

\* C6 (as stated): an Update by the record's authority whose encoded payload
\* is longer than the record's allocated length fails with DataTooLarge.
C6_OversizedUpdateDataTooLarge ==
    \A m \in ModifyAttempts :
        IsOversizedUpdate(m) => m.res.err \in DataTooLarge

\* C6 (amended): such an Update always fails and leaves the ledger as it
\* was; it fails with DataTooLarge when the content is within the
\* 1000-byte limit and the record's bytes decode as a memo, with MemoTooLong
\* when the content is over the limit.
C6_OversizedUpdateFails ==
    \A m \in ModifyAttempts :
        IsOversizedUpdate(m) =>
            /\ m.res.err # "Ok"
            /\ m.res.accts = accounts
            /\ Len(m.content) > MAX_CONTENT_LENGTH => m.res.err = "MemoTooLong"
            /\ (Len(m.content) <= MAX_CONTENT_LENGTH
                    /\ Memo_try_from_slice(accounts[m.target].data).ok) =>
                   m.res.err \in DataTooLarge

\* an Update has just been refused because its bytes did not fit
C6_Witness ==
    /\ deployed = MEMO_PROGRAM
    /\ last.op = "Update"
    /\ last.err \in DataTooLarge

\* C7: an instruction whose discriminator is not one of the program's, or
\* whose bytes do not decode, is rejected as invalid by the memo, the
\* token-metadata and the sysvar program, and the handler returns the ledger
\* exactly as it received it.
C7_MalformedRejectedUntouched ==
    \A m \in MalformedAttempts :
        ~m.decoded =>
            /\ m.run.err \in InvalidInstruction
            /\ m.run.accts = accounts

\* undecodable bytes have just been sent and refused, with a record on the
\* ledger that they could have touched
C7_Witness ==
    /\ last.op = "Malformed"
    /\ last.err \in InvalidInstruction
    /\ \E k \in Addresses : IsActive(accounts, k)

\* C8: an Active memo or note stores the authority written by the Create
\* that made it, after any sequence of Updates.
C8_AuthorityImmutable ==
    \A k \in Addresses :
        (IsActive(accounts, k) /\ accounts[k].owner \in {MEMO_PROGRAM, NOTE_PROGRAM}) =>
            StoredAuthority(accounts, k) = createdAuth[k]

\* an Update of a memo or a note has just succeeded
C8_Witness ==
    /\ deployed \in {MEMO_PROGRAM, NOTE_PROGRAM}
    /\ last.op = "Update"
    /\ last.err = "Ok"
    /\ \E k \in Addresses : IsActive(accounts, k) /\ createdAuth[k] # <<>>

\* C9 (as stated): a Create fails with AddressMismatch whenever the address
\* the caller supplies is not the one derived from the seeds and the
\* program id.
C9_MismatchAlwaysAddressMismatch ==
    \A c \in CreateAttempts :
        c.target # c.derived => c.res.err \in AddressMismatch

\* C9 (amended): a Create whose supplied address is not the derived one
\* always fails and leaves the ledger as it was; it fails with
\* AddressMismatch whenever the checks the handler makes before deriving the
\* address (the authority's signature, the system program's id) pass.
C9_MismatchFails ==
    \A c \in CreateAttempts :
        c.target # c.derived =>
            /\ c.res.err # "Ok"
            /\ c.res.accts = accounts
            /\ c.early => c.res.err \in AddressMismatch

\* a Create has just been refused because its address was not the derived one
C9_Witness ==
    /\ last.op = "Create"
    /\ last.err \in AddressMismatch

(***************************************************************************)
(* The counter account of the lookup-table tutorial (alt.md) and the       *)
(* client class that reads it (alt-utils.ts).  A u64 is its eight bytes,   *)
(* low byte first; the client turns it into a JavaScript number, a double  *)
(* with 53 bits of mantissa, rounded to nearest with ties to even.         *)
(***************************************************************************)
\* Counter::LEN
COUNTER_LEN == 8 + 32
DOUBLE_MANTISSA_BITS == 53

\* Counter { count: u64, authority: Pubkey }
Counter_encode(c) == c.count \o c.authority

NoCounter == [count |-> <<>>, authority |-> <<>>]

\* number of bits of a byte's value
BitLen(x) == CHOOSE l \in 0..8 : x < 2^l /\ (l = 0 \/ x >= 2^(l - 1))

\* number of bits of a u64's value
U64Bits(b) ==
    LET used == {j \in 1..8 : b[j] # 0}
        top == CHOOSE j \in used : \A i \in used : i <= j
    IN  IF used = {} THEN 0 ELSE 8 * (top - 1) + BitLen(b[top])

\* one added at byte j, the carry passed up
RECURSIVE IncFrom(_, _)
IncFrom(b, j) ==
    IF j > Len(b) THEN Append(b, 1)
    ELSE IF b[j] < 255 THEN [b EXCEPT ![j] = @ + 1]
    ELSE IncFrom([b EXCEPT ![j] = 0], j + 1)

\* Number(count): the bits below the mantissa are rounded away; the result
\* is given as bytes again (nine of them when it is 2^64)
JsNumber(b) ==
    LET s == U64Bits(b) - DOUBLE_MANTISSA_BITS
        unit == 2^s
        low == b[1] + 256 * b[2]
        rem == low % unit
        odd == (low \div unit) % 2 = 1
        up == 2 * rem > unit \/ (2 * rem = unit /\ odd)
        kept == low - rem + (IF up THEN unit ELSE 0)
        cleared == [b EXCEPT ![1] = kept % 256, ![2] = (kept \div 256) % 256]
    IN  IF s <= 0 THEN b
        ELSE IF kept >= 65536 THEN IncFrom(cleared, 3)
        ELSE cleared

\* Counter.fromBuffer: deserialize with the schema, then Number(count)
Counter_fromBuffer(buffer) ==
    IF Len(buffer) # COUNTER_LEN THEN [ok |-> FALSE, val |-> NoCounter]
    ELSE [ok |-> TRUE,
          val |-> [count |-> JsNumber(Take(buffer, 8)),
                   authority |-> SubSeq(buffer, 9, COUNTER_LEN)]]

\* bytes of the count field: readBigUInt64LE(0) needs that many
COUNT_BYTES == 8

\* new PublicKey(bytes): the bytes are read as a big-endian number, which
\* may not need more than 32 bytes; fewer bytes give the same number
PublicKey(bytes) ==
    IF Len(bytes) > PUBKEY_BYTES THEN [ok |-> FALSE, val |-> <<>>]
    ELSE [ok |-> TRUE, val |-> Rep(0, PUBKEY_BYTES - Len(bytes)) \o bytes]

\* ProgramUtils.getCounterData on the data of an account that exists:
\* Counter.fromBuffer, and when that throws the count is read from bytes
\* 0..7 and the authority from data.slice(8, 40); ok is FALSE where null is
\* returned
getCounterData(data) ==
    LET counter == Counter_fromBuffer(data)
        authority == PublicKey(SubSeq(data, COUNT_BYTES + 1,
                                      IF Len(data) < COUNTER_LEN THEN Len(data)
                                      ELSE COUNTER_LEN))
    IN  IF counter.ok THEN counter
        ELSE IF Len(data) < COUNT_BYTES THEN [ok |-> FALSE, val |-> NoCounter]
        ELSE IF ~authority.ok THEN [ok |-> FALSE, val |-> NoCounter]
        ELSE [ok |-> TRUE,
              val |-> [count |-> JsNumber(Take(data, COUNT_BYTES)),
                       authority |-> authority.val]]

(***************************************************************************)
(* The codecs on their own: a payload is serialized, and the bytes are     *)
(* deserialized again by the decoder of the same type.                     *)
(***************************************************************************)
\* largest counter value reached by counting, besides the limit cases
MaxCount == 2

ledgerVars == <<deployed, accounts, last, closed, createdAuth, clock, foreign>>

UserKeys == {PubkeyBytes(u) : u \in Users}

MemoPayloads ==
    [is_initialized : BOOLEAN, authority : UserKeys, content : Contents]

MemoInstructionPayloads ==
    [tag : {"Initialize", "Update"}, content : Contents]
        \cup {[tag |-> "Delete", content |-> <<>>]}

MetadataInstructionPayloads ==
    {[tag |-> t, name |-> m.name, symbol |-> m.symbol, icon |-> m.icon,
      home |-> m.home] : t \in {"RegisterMetadata", "UpdateMetadata"},
                         m \in MetaValues}

SysvarInstructionPayloads ==
    {[variant |-> v,
      size |-> IF v \in {CALCULATE_RENT, CREATE_PDA_ACCOUNT} THEN z ELSE <<>>,
      seed |-> IF v \in {CREATE_PDA_ACCOUNT, GET_ACCOUNT_CREATION_TIME,
                         CHECK_RENT_EXEMPTION} THEN sd ELSE <<>>] :
        v \in 0..(SYSVAR_VARIANTS - 1), z \in Spaces, sd \in PdaSeeds}

NotePayloads ==
    [authority : UserKeys, note_id : NoteIds, message : NoteMessages,
     created_at : 1..MaxClock, updated_at : 1..MaxClock]

\* 2^53 - 1, the largest count a double holds together with all below it
MAX_SAFE_INTEGER == <<255, 255, 255, 255, 255, 255, 31, 0>>

IsSafeInteger(b) == b[8] = 0 /\ b[7] < 32

\* counts from zero up, the last safe one, 2^53, 2^53 + 1, 2^53 + 3, 2^64 - 1
CounterCounts ==
    {U64LE(n) : n \in 0..MaxCount}
        \cup {MAX_SAFE_INTEGER,
              <<0, 0, 0, 0, 0, 0, 32, 0>>, <<1, 0, 0, 0, 0, 0, 32, 0>>,
              <<3, 0, 0, 0, 0, 0, 32, 0>>, Rep(255, 8)}

CounterPayloads == [count : CounterCounts, authority : UserKeys]

Kinds ==
    {"Memo", "MemoInstruction", "TokenMetadataInstruction", "SysvarInstruction",
     "Note", "Counter", "CounterAccount"}

Payloads(kind) ==
    CASE kind = "Memo" -> MemoPayloads
      [] kind = "MemoInstruction" -> MemoInstructionPayloads
      [] kind = "TokenMetadataInstruction" -> MetadataInstructionPayloads
      [] kind = "SysvarInstruction" -> SysvarInstructionPayloads
      [] kind = "Note" -> NotePayloads
      [] kind \in {"Counter", "CounterAccount"} -> CounterPayloads

\* BorshSerialize of each type
Encode(kind, p) ==
    CASE kind = "Memo" -> Memo_encode(p)
      [] kind = "MemoInstruction" -> MemoInstruction_encode(p)
      [] kind = "TokenMetadataInstruction" -> TokenMetadataInstruction_encode(p)
      [] kind = "SysvarInstruction" -> SysvarInstruction_encode(p)
      [] kind = "Note" -> Note_encode(p)
      [] kind \in {"Counter", "CounterAccount"} -> Counter_encode(p)

\* the account a note's bytes are read from
NoteAccount(bytes) ==
    [k \in {NOTE_PROGRAM} |-> [lamports |-> 1, data |-> bytes, owner |-> NOTE_PROGRAM]]

\* the decoder of each type, as [ok, val]
Decode(kind, bytes) ==
    CASE kind = "Memo" -> Memo_try_from_slice(bytes)
      [] kind = "MemoInstruction" -> MemoInstruction_try_from_slice(bytes)
      [] kind = "TokenMetadataInstruction" ->
             TokenMetadataInstruction_try_from_slice(bytes)
      [] kind = "SysvarInstruction" -> SysvarInstruction_try_from_slice(bytes)
      [] kind = "Note" ->
             LET n == Note_try_from(NoteAccount(bytes), NOTE_PROGRAM)
             IN  [ok |-> n.err = "Ok", val |-> n.val]
      [] kind = "Counter" -> Counter_fromBuffer(bytes)
      [] kind = "CounterAccount" -> getCounterData(bytes)

Serialize ==
    /\ \E kind \in Kinds : \E p \in Payloads(kind) :
           call' = [step |-> "encoded", kind |-> kind, payload |-> p,
                    wire |-> Encode(kind, p), damage |-> "none"]
    /\ UNCHANGED ledgerVars

Deserialize ==
    /\ call.step = "encoded"
    /\ call' = [step |-> "decoded", kind |-> call.kind, payload |-> call.payload,
                wire |-> call.wire, damage |-> call.damage,
                result |-> Decode(call.kind, call.wire)]
    /\ UNCHANGED ledgerVars

\* most bytes cut from, or added to, the bytes of a payload
MaxDamage == 2

\* how many bytes are cut: a few, all but less than a count, or all
Cuts(wire) ==
    {n \in (1..MaxDamage) \cup {Len(wire) - (COUNT_BYTES - 1), Len(wire)} :
        1 <= n /\ n <= Len(wire)}

\* the bytes added: padding, or anything else
Paddings == {Rep(0, n) : n \in 1..MaxDamage} \cup {Rep(7, n) : n \in 1..MaxDamage}

\* the bytes of a payload reach the decoder cut short, or with bytes after
\* them (an account allocated larger than the record, a longer buffer)
Damage ==
    /\ call.step = "encoded"
    /\ call.damage = "none"
    /\ \/ \E n \in Cuts(call.wire) :
              call' = [call EXCEPT !.wire = Take(call.wire, Len(call.wire) - n),
                                   !.damage = "short"]
       \/ \E extra \in Paddings :
              call' = [call EXCEPT !.wire = call.wire \o extra, !.damage = "long"]
    /\ UNCHANGED ledgerVars

\* sizes asked of the rent calculation, besides the ones it always shows
MaxRentSize == 4

\* the sizes calculate_rent lists
SizesShown == {0, 10, 100, 1000, 10000}

RentSizes == (0..MaxRentSize) \cup SizesShown \cup {Note_MAX_SIZE, 100000, 300000}

\* calculate_rent: what it logs for a size
CalculateRent ==
    /\ \E size \in RentSizes :
           call' = [step |-> "rent", size |-> size,
                    minimum_balance |-> minimum_balance(size),
                    yearly_rent |-> LAMPORTS_PER_BYTE_YEAR * size,
                    shown |-> [s \in SizesShown |-> minimum_balance(s)]]
    /\ UNCHANGED ledgerVars

\* largest note id an address is derived for
MaxSeedId == 3

\* the seeds the clients derive addresses from: a mint's metadata, a user's
\* notes and index, the sysvar client's seed
DeriveInputs ==
    DerivationInputs
    \cup {<<NoteSeeds(u, U64LE(i)), NOTE_PROGRAM>> : u \in Users, i \in 0..MaxSeedId}

\* getMetadataPDA, getNotePda, getUserIndexPda: findProgramAddressSync
Derive ==
    /\ \E d \in DeriveInputs :
           call' = [step |-> "derived", seeds |-> d[1], program_id |-> d[2],
                    result |-> find_program_address(d[1], d[2])]
    /\ UNCHANGED ledgerVars

PureInit == Init /\ deployed = MEMO_PROGRAM

PureNext ==
    \/ Serialize
    \/ Deserialize
    \/ Damage
    \/ CalculateRent
    \/ Derive

PureSpec == PureInit /\ [][PureNext]_vars

\* C11: for every valid payload (records and instructions),
\* decode(encode(payload)) equals the payload.
C11_RoundTrip ==
    (call.step = "decoded" /\ call.damage = "none") =>
        call.result.ok /\ call.result.val = call.payload

\* C11, amended: the same for every payload whose counter value, if it has
\* one, is at most 2^53 - 1.
C11_RoundTripSafeIntegers ==
    (/\ call.step = "decoded"
     /\ call.damage = "none"
     /\ call.kind \in {"Counter", "CounterAccount"} =>
            IsSafeInteger(call.payload.count)) =>
        call.result.ok /\ call.result.val = call.payload

\* a counter holding 2^53 - 1 has been written and read back unchanged
C11_Witness ==
    /\ call.step = "decoded"
    /\ call.kind = "Counter"
    /\ call.payload.count = MAX_SAFE_INTEGER
    /\ call.result.val = call.payload

COUNTER_PROGRAM == 16
CounterKeyBase == 50

\* number of counter keypairs
NumCounters == 2
\* most instructions in one transaction
MaxInstructions == 2

CounterKeys == {CounterKeyBase + i : i \in 1..NumCounters}

CounterAddresses == Users \cup CounterKeys

\* enum TutorialInstruction { CreateCounter, IncrementCounter, BatchIncrement }
CREATE_COUNTER == 0
INCREMENT_COUNTER == 1
BATCH_INCREMENT == 2

TutorialInstruction_try_from_slice(data) ==
    IF Len(data) = 1 /\ data[1] \in {CREATE_COUNTER, INCREMENT_COUNTER, BATCH_INCREMENT}
    THEN [ok |-> TRUE, val |-> data[1]]
    ELSE [ok |-> FALSE, val |-> 255]

\* Counter::try_from_slice: both fields, then no byte may be left
Counter_try_from_slice(data) ==
    IF Len(data) # COUNTER_LEN THEN [ok |-> FALSE, val |-> NoCounter]
    ELSE [ok |-> TRUE,
          val |-> [count |-> Take(data, 8), authority |-> Drop(data, 8)]]

\* counter.count += 1, then the counter written back.  At u64::MAX the
\* addition panics in a build with overflow checks and wraps without.
Counter_increment(a, k, checked) ==
    LET c == Counter_try_from_slice(a[k].data)
        sum == IncFrom(c.val.count, 1)
        next == IF Len(sum) > 8 THEN Zeros(8) ELSE sum
        w == SerializeInto(a[k].data, Counter_encode([c.val EXCEPT !.count = next]))
        b == [a EXCEPT ![k].data = w.data]
    IN  IF ~c.ok THEN Fail(DECODE_ERROR, a)
        ELSE IF Len(sum) > 8 /\ checked THEN Fail("ProgramFailedToComplete", a)
        ELSE IF w.ok THEN Ok(b) ELSE Fail(WRITE_ZERO, b)

\* keys: payer, counter account, system program
create_counter(a, keys, signers) ==
    IF Len(keys) < 3 THEN Fail("NotEnoughAccountKeys", a)
    ELSE IF keys[1] \notin signers THEN Fail("MissingRequiredSignature", a)
    ELSE IF keys[2] \notin signers THEN Fail("MissingRequiredSignature", a)
    ELSE IF keys[3] # SYSTEM_PROGRAM THEN Fail("IncorrectProgramId", a)
    ELSE LET r == create_account(a, keys[1], keys[2], minimum_balance(COUNTER_LEN),
                                 COUNTER_LEN, COUNTER_PROGRAM, signers)
         IN  IF r.err # "Ok" THEN r
             ELSE LET w == SerializeInto(r.accts[keys[2]].data,
                               Counter_encode([count |-> Zeros(8),
                                               authority |-> PubkeyBytes(keys[1])]))
                      b == [r.accts EXCEPT ![keys[2]].data = w.data]
                  IN  IF w.ok THEN Ok(b) ELSE Fail(WRITE_ZERO, b)

\* keys: the counter account
increment_counter(a, keys, checked) ==
    IF Len(keys) < 1 THEN Fail("NotEnoughAccountKeys", a)
    ELSE IF a[keys[1]].owner # COUNTER_PROGRAM THEN Fail("IncorrectProgramId", a)
    ELSE Counter_increment(a, keys[1], checked)

\* keys: the counter accounts; one the program does not own is skipped
RECURSIVE batch_increment(_, _, _)
batch_increment(a, keys, checked) ==
    IF keys = <<>> THEN Ok(a)
    ELSE IF a[Head(keys)].owner # COUNTER_PROGRAM
         THEN batch_increment(a, Tail(keys), checked)
    ELSE LET r == Counter_increment(a, Head(keys), checked)
         IN  IF r.err # "Ok" THEN r
             ELSE batch_increment(r.accts, Tail(keys), checked)

\* process_instruction of the counter program
Counter_process(a, i, signers, checked) ==
    LET t == TutorialInstruction_try_from_slice(i.data)
    IN  IF ~t.ok THEN Fail(DECODE_ERROR, a)
        ELSE IF t.val = CREATE_COUNTER THEN create_counter(a, i.keys, signers)
        ELSE IF t.val = INCREMENT_COUNTER THEN increment_counter(a, i.keys, checked)
        ELSE batch_increment(a, i.keys, checked)

\* the instructions of a transaction run in order, each on the ledger the
\* one before left; the first that fails ends the run.  done counts the
\* instructions that succeeded.
RECURSIVE RunInstructions(_, _, _, _, _)
RunInstructions(a, instructions, signers, checked, done) ==
    IF instructions = <<>> THEN [err |-> "Ok", accts |-> a, done |-> done]
    ELSE LET r == Counter_process(a, Head(instructions), signers, checked)
         IN  IF r.err # "Ok"
             THEN [err |-> r.err, accts |-> r.accts, done |-> done]
             ELSE IF SumLamports(r.accts, DOMAIN a) # SumLamports(a, DOMAIN a)
             THEN [err |-> "UnbalancedInstruction", accts |-> r.accts, done |-> done]
             ELSE RunInstructions(r.accts, Tail(instructions), signers, checked,
                                  done + 1)

\* a runtime that keeps what the instructions before the failing one wrote
Transaction_keeping_prefix(a, tx, checked) ==
    LET r == RunInstructions(a, tx.instructions, tx.signers, checked, 0)
    IN  IF r.err = "Ok" THEN [r EXCEPT !.accts = Purge(r.accts)]
        ELSE IF r.done > 0 THEN [r EXCEPT !.accts = Purge(r.accts)]
        ELSE [r EXCEPT !.accts = a]

\* one transaction: committed when every instruction succeeded, discarded
\* otherwise
Transaction(a, tx, checked) ==
    LET r == RunInstructions(a, tx.instructions, tx.signers, checked, 0)
    IN  IF r.err = "Ok" THEN [r EXCEPT !.accts = Purge(r.accts)]
        ELSE [r EXCEPT !.accts = a]

\* createCounterInstruction, incrementCounterInstruction,
\* batchIncrementInstruction
CreateIx(payer, counter) ==
    [data |-> <<CREATE_COUNTER>>, keys |-> <<payer, counter, SYSTEM_PROGRAM>>]

IncrementIx(counter) == [data |-> <<INCREMENT_COUNTER>>, keys |-> <<counter>>]

BatchIx(counters) == [data |-> <<BATCH_INCREMENT>>, keys |-> counters]

\* the counter keypairs in the order the client generates them
CounterList == [i \in 1..NumCounters |-> CounterKeyBase + i]

\* the accounts handed to a batch: all counters, one counter, or a wallet
\* ahead of the counters
BatchLists == {CounterList, <<CounterList[1]>>, <<userA>> \o CounterList}

CounterInstructions ==
    {CreateIx(p, k) : p \in Users, k \in CounterKeys}
        \cup {IncrementIx(k) : k \in CounterKeys \cup {userB}}
        \cup {BatchIx(ks) : ks \in BatchLists}
        \cup {[data |-> <<3>>, keys |-> <<>>]}

\* the keys an instruction list marks as signers
RequiredSigners(instructions) ==
    UNION {{instructions[n].keys[1], instructions[n].keys[2]} :
              n \in {j \in DOMAIN instructions :
                        instructions[j].data = <<CREATE_COUNTER>>}}

\* sendLegacyTransaction, sendVersionedTransaction: the instructions and the
\* signatures, all of them or one missing
CounterTransactions ==
    UNION {{[instructions |-> is, signers |-> ss] :
               ss \in SignerSets(RequiredSigners(is))} :
           is \in UNION {[1..n -> CounterInstructions] : n \in 1..MaxInstructions}}

\* the value of a counter account, 0 for an account that holds no counter
CountOf(a, k) ==
    IF a[k].owner = COUNTER_PROGRAM /\ Len(a[k].data) >= 8
    THEN U64Value(Take(a[k].data, 8))
    ELSE 0

SendTransaction ==
    /\ deployed = COUNTER_PROGRAM
    /\ \E tx \in CounterTransactions, checked \in BOOLEAN :
        LET r == Transaction(accounts, tx, checked)
        IN  /\ \A k \in CounterKeys : CountOf(r.accts, k) <= MaxCount
            /\ accounts' = r.accts
            /\ last' = [op |-> "Transaction", err |-> r.err, reopened |-> FALSE,
                        first |-> tx.instructions[1].data,
                        size |-> Len(tx.instructions), done |-> r.done]
    /\ UNCHANGED <<deployed, closed, createdAuth, clock, foreign, call>>

CounterInit ==
    /\ deployed = COUNTER_PROGRAM
    /\ accounts = [k \in CounterAddresses |->
                     IF k \in Users
                     THEN [lamports |-> LAMPORTS_PER_SOL, data |-> <<>>,
                           owner |-> SYSTEM_PROGRAM]
                     ELSE NoAccount]
    /\ clock = 1
    /\ last = [op |-> "None", err |-> "Ok", reopened |-> FALSE]
    /\ closed = {}
    /\ createdAuth = [k \in CounterAddresses |-> <<>>]
    /\ foreign = 0
    /\ call = [step |-> "idle"]

CounterNext == SendTransaction

CounterSpec == CounterInit /\ [][CounterNext]_vars

\* the ledger after each instruction of a list was applied in turn
RECURSIVE Effects(_, _, _, _)
Effects(a, instructions, signers, checked) ==
    IF instructions = <<>> THEN a
    ELSE Effects(Counter_process(a, Head(instructions), signers, checked).accts,
                 Tail(instructions), signers, checked)

\* every instruction of a list succeeds when applied in turn
RECURSIVE AllSucceed(_, _, _, _)
AllSucceed(a, instructions, signers, checked) ==
    \/ instructions = <<>>
    \/ LET r == Counter_process(a, Head(instructions), signers, checked)
       IN  /\ r.err = "Ok"
           /\ AllSucceed(r.accts, Tail(instructions), signers, checked)

AuthorizationFailure ==
    {"Unauthorized", "ConstraintHasOne", "ConstraintSeeds",
     "MissingRequiredSignature", "AccountNotSigner"}

UninitializedAccount == {"UninitializedAccount", "AccountNotInitialized"}

\* the errors of the checks a handler makes before it looks at the owner of
\* the record's account
BeforeOwnerCheck == {"MemoTooLong", "MissingRequiredSignature", "InvalidArgument"}

\* C15 (as stated): an Update or Close addressed to a record that is not
\* Active (never created, or already closed) fails with UninitializedAccount.
C15_NonActiveUninitializedAccount ==
    \A m \in ModifyAttempts :
        ~IsActive(accounts, m.target) => m.res.err \in UninitializedAccount

\* C15 (amended): an Update or Close addressed to a record that is not Active
\* always fails and leaves the ledger as it was.  The note program fails it
\* with UninitializedAccount (Anchor's AccountNotInitialized); the memo and
\* the token-metadata program fail it with IncorrectProgramId, or with the
\* error of a check they make before the owner check.
C15_NonActiveFails ==
    \A m \in ModifyAttempts :
        ~IsActive(accounts, m.target) =>
            /\ m.res.err # "Ok"
            /\ m.res.accts = accounts
            /\ deployed = NOTE_PROGRAM => m.res.err \in UninitializedAccount
            /\ deployed # NOTE_PROGRAM =>
                   m.res.err \in BeforeOwnerCheck \cup {"IncorrectProgramId"}
            /\ (deployed = MEMO_PROGRAM /\ Len(m.content) <= MAX_CONTENT_LENGTH) =>
                   m.res.err = "IncorrectProgramId"

\* every note has been closed, and a Close sent to one of them was just
\* refused: the account is not initialized
C15_Witness ==
    /\ deployed = NOTE_PROGRAM
    /\ \A k \in NotePdas : LifecycleState(k) = "Closed"
    /\ last.op = "Close"
    /\ last.err = "AccountNotInitialized"

\* the decoders that read the fields they declare and stop: Anchor's
\* Account<Note>, and the manual parsing getCounterData falls back to
ReadsDeclaredBytesOnly == {"Note", "CounterAccount"}

\* C16 (as stated): decoding is strict: any byte string that is shorter than
\* the declared schema requires, or that has bytes left over after the
\* declared schema has been consumed, is rejected with a decode error.
C16_DecodingStrict ==
    (call.step = "decoded" /\ call.damage # "none") => ~call.result.ok

\* C16 (amended): every decoder rejects a byte string shorter than its
\* schema requires, except getCounterData, which rejects it only when fewer
\* than 8 bytes are left.  A byte string with bytes left over is rejected
\* by the Borsh decoders (try_from_slice, Counter.fromBuffer); the note's
\* account decoder and getCounterData ignore the bytes left over and
\* return the payload.
C16_StrictUnlessDeclaredBytesOnly ==
    /\ (call.step = "decoded" /\ call.damage = "short") =>
           IF call.kind = "CounterAccount"
           THEN call.result.ok <=> Len(call.wire) >= COUNT_BYTES
           ELSE ~call.result.ok
    /\ (call.step = "decoded" /\ call.damage = "long") =>
           IF call.kind \in ReadsDeclaredBytesOnly
           THEN /\ call.result.ok
                /\ (call.kind = "CounterAccount" =>
                        IsSafeInteger(call.payload.count)) =>
                       call.result.val = call.payload
           ELSE ~call.result.ok

\* a memo record followed by padding has been refused by its decoder
C16_Witness ==
    /\ call.step = "decoded"
    /\ call.kind = "Memo"
    /\ call.damage = "long"
    /\ Encode("Memo", call.payload) \o Rep(0, MaxDamage) = call.wire
    /\ ~call.result.ok

(***************************************************************************)
(* One user's notes (client.ts, "Multiple Notes Support"): the user       *)
(* creates, updates and deletes notes under several ids, each at the       *)
(* address derived from the user's key and the id.                         *)
(***************************************************************************)
NotebookIds == {U64LE(i) : i \in 0..(NumNotes - 1)}

NotebookPdas == {NotePda(u, i) : u \in Users, i \in NotebookIds}

NotebookAddresses == Users \cup NotebookPdas

\* messages of the suite ("First note", "Updated second note")
NotebookMessages == {Rep(97, 1), Rep(98, 2)}

NotebookCreate ==
    \E note_id \in NotebookIds, message \in NotebookMessages, now \in Times :
        Submit("Create",
               Accts(userA, NotePda(userA, note_id), userA, userA, {userA}),
               NoteCreateTx(accounts, userA, NotePda(userA, note_id), {userA},
                            note_id, message, now),
               now)

NotebookUpdate ==
    \E note_id \in NotebookIds, message \in NotebookMessages, now \in Times :
        Submit("Update",
               Accts(userA, NotePda(userA, note_id), userA, userA, {userA}),
               NoteUpdateTx(accounts, userA, NotePda(userA, note_id), {userA},
                            note_id, message, now),
               now)

NotebookDelete ==
    \E note_id \in NotebookIds, now \in Times :
        Submit("Close",
               Accts(userA, NotePda(userA, note_id), userA, userA, {userA}),
               NoteDeleteTx(accounts, userA, NotePda(userA, note_id), {userA},
                            note_id, now),
               now)

NotebookInit ==
    /\ deployed = NOTE_PROGRAM
    /\ accounts = [k \in NotebookAddresses |->
                     IF k \in Users
                     THEN [lamports |-> LAMPORTS_PER_SOL, data |-> <<>>,
                           owner |-> SYSTEM_PROGRAM]
                     ELSE NoAccount]
    /\ clock = 1
    /\ last = [op |-> "None", err |-> "Ok", reopened |-> FALSE]
    /\ closed = {}
    /\ createdAuth = [k \in NotebookAddresses |-> <<>>]
    /\ foreign = 0
    /\ call = [step |-> "idle"]

NotebookNext ==
    \/ NotebookCreate
    \/ NotebookUpdate
    \/ NotebookDelete

NotebookSpec == NotebookInit /\ [][NotebookNext]_vars

\* every update and delete either user can send for either id at any note
\* address, with any message: the note the instruction names (the one at
\* the address derived from the caller and note_id) and the answer
NotebookModifies ==
    UNION {UNION {{[op |-> "Update", target |-> target,
                    named |-> NotePda(authority, note_id),
                    res |-> NoteUpdateTx(accounts, authority, target, signers,
                                         note_id, message, now)],
                   [op |-> "Close", target |-> target,
                    named |-> NotePda(authority, note_id),
                    res |-> NoteDeleteTx(accounts, authority, target, signers,
                                         note_id, now)]} :
                  message \in NoteMessages \cup NotebookMessages,
                  signers \in SignerSets({authority})} :
           authority \in Users, target \in NotebookPdas, note_id \in NotebookIds,
           now \in Times}

\* the message a stored note decodes to
MessageOf(a, k) == Note_try_from(a, k).val.message

\* C17: updating or deleting one note leaves every other note of the same
\* user unchanged: the other notes still exist and keep their messages.
C17_OtherNotesUnchanged ==
    \A m \in NotebookModifies :
        \A k \in NotebookPdas \ {m.named} :
            /\ IsActive(accounts, k) =>
                   /\ IsActive(m.res.accts, k)
                   /\ MessageOf(m.res.accts, k) = MessageOf(accounts, k)
            /\ m.res.accts[k] = accounts[k]

\* the user holds two notes with different messages, and the update of one
\* of them was just committed
C17_Witness ==
    /\ last.op = "Update"
    /\ last.err = "Ok"
    /\ \A i \in NotebookIds : IsActive(accounts, NotePda(userA, i))
    /\ \E i, j \in NotebookIds :
           MessageOf(accounts, NotePda(userA, i)) # MessageOf(accounts, NotePda(userA, j))

\* the creates of "Multi-User Support": a user creates a note under an id
\* at the address derived from the user's own key and the id
OwnCreates ==
    IF deployed # NOTE_PROGRAM THEN {}
    ELSE {[user |-> user, note_id |-> note_id, message |-> message,
           res |-> NoteCreateTx(accounts, user, NotePda(user, note_id), {user},
                                note_id, message, now)] :
             user \in Users, note_id \in NoteIds, message \in NoteMessages,
             now \in Times}

\* C18: notes created by two different users with the same note id are
\* stored at different derived addresses, each keeping its own authority
\* and message.
C18_SameIdDifferentUsers ==
    \A c \in OwnCreates : \A other \in Users \ {c.user} :
        LET mine == NotePda(c.user, c.note_id)
            theirs == NotePda(other, c.note_id)
        IN  /\ mine # theirs
            /\ (/\ ~IsActive(accounts, mine)
                /\ accounts[mine].lamports = 0
                /\ Len(c.message) <= MAX_MESSAGE_LENGTH) => c.res.err = "Ok"
            /\ c.res.err = "Ok" =>
                   /\ Note_try_from(c.res.accts, mine).val.authority
                          = PubkeyBytes(c.user)
                   /\ MessageOf(c.res.accts, mine) = c.message
                   /\ c.res.accts[theirs] = accounts[theirs]
            /\ IsActive(accounts, theirs) =>
                   Note_try_from(accounts, theirs).val.authority = PubkeyBytes(other)

\* both users hold a note under the same id, with different messages, the
\* second of them just created
C18_Witness ==
    /\ deployed = NOTE_PROGRAM
    /\ last.op = "Create"
    /\ last.err = "Ok"
    /\ \E i \in NoteIds :
           /\ \A u \in Users : IsActive(accounts, NotePda(u, i))
           /\ MessageOf(accounts, NotePda(userA, i)) # MessageOf(accounts, NotePda(userB, i))

\* the names the programs give the error of a message over the limit
TooLong == {"MemoTooLong", "MessageTooLong"}

\* the message stored at k: the string field after the memo's flag and
\* authority, or the note's message
StoredMessage(a, k) ==
    IF a[k].owner = NOTE_PROGRAM THEN MessageOf(a, k)
    ELSE ReadString(Drop(a[k].data, 1 + PUBKEY_BYTES)).val

\* every Create of a memo or a note, with the message sent and what the
\* handler would have to find in order: for the note, the signature and
\* the derived address come before the message
MessageCreates ==
    CASE deployed = MEMO_PROGRAM ->
            UNION {{[message |-> content, reaches |-> TRUE,
                     res |-> MemoInitializeTx(accounts, payer, target, authority,
                                              signers, content)] :
                      signers \in SignerSets({payer, authority, target})} :
                   payer \in Users, target \in MemoKeys, authority \in Users,
                   content \in Contents}
      [] deployed = NOTE_PROGRAM ->
            UNION {{[message |-> message,
                     reaches |-> /\ user \in signers
                                 /\ target = NotePda(user, note_id)
                                 /\ accounts[target].lamports = 0,
                     res |-> NoteCreateTx(accounts, user, target, signers, note_id,
                                          message, now)] :
                      signers \in SignerSets({user})} :
                   user \in Users, target \in NotePdas, note_id \in NoteIds,
                   message \in NoteMessages, now \in Times}
      [] OTHER -> {}

\* every Update of a memo or a note, in the same way: the memo tests the
\* length first, the note after the constraints on its accounts
MessageUpdates ==
    CASE deployed = MEMO_PROGRAM ->
            {[message |-> m.content, reaches |-> TRUE, res |-> m.res] :
                m \in {u \in MemoModifies : u.op = "Update"}}
      [] deployed = NOTE_PROGRAM ->
            UNION {{[message |-> message,
                     reaches |-> Note_constraints(accounts,
                                     Accts(authority, target, authority, authority,
                                           signers),
                                     note_id) = "Ok",
                     res |-> NoteUpdateTx(accounts, authority, target, signers,
                                          note_id, message, now)] :
                      signers \in SignerSets({authority})} :
                   authority \in Users, target \in NotePdas, note_id \in NoteIds,
                   message \in NoteMessages, now \in Times}
      [] OTHER -> {}

\* C19: a Create or Update whose message is longer than 1000 characters is
\* rejected (with the program's too-long error when the handler reaches
\* the test of the length), so no stored note or memo ever holds a message
\* longer than 1000 characters.
C19_LongMessageRejected ==
    /\ \A c \in MessageCreates :
           Len(c.message) > MAX_MESSAGE_LENGTH =>
               /\ c.res.err # "Ok"
               /\ c.res.accts = accounts
               /\ c.reaches => c.res.err \in TooLong
    /\ \A m \in MessageUpdates :
           Len(m.message) > MAX_MESSAGE_LENGTH =>
               /\ m.res.err # "Ok"
               /\ m.res.accts = accounts
               /\ m.reaches => m.res.err \in TooLong
    /\ \A k \in MemoKeys \cup NotePdas :
           IsActive(accounts, k) =>
               Len(StoredMessage(accounts, k)) <= MAX_MESSAGE_LENGTH

\* a note holds a message of exactly 1000 characters, and an Update with a
\* longer one was just refused
C19_Witness ==
    /\ deployed = NOTE_PROGRAM
    /\ last.op = "Update"
    /\ last.err = "MessageTooLong"
    /\ \E k \in NotePdas :
           /\ IsActive(accounts, k)
           /\ Len(StoredMessage(accounts, k)) = MAX_MESSAGE_LENGTH

(***************************************************************************)
(* The user's index of notes (client.ts, "Improved Note System"): the      *)
(* handlers initialize_user_index, create_note and delete_note as the      *)
(* suite describes them.  x.user_index is the index account.               *)
(***************************************************************************)
\* most notes one user ever creates
MaxNoteCount == 3

UserIndexPda(user) ==
    find_program_address(<<PubkeyBytes(user), INDEX_SEED>>, NOTE_PROGRAM).key

\* b"UserNoteIndex", hashed for the account's discriminator
USER_NOTE_INDEX_DISCRIMINATOR ==
    U64LE(Sha(<<85, 115, 101, 114, 78, 111, 116, 101, 73, 110, 100, 101, 120>>))

\* UserNoteIndex { authority, note_count: u64, note_ids: Vec<u64> }
UserNoteIndex_encode(ix) ==
    USER_NOTE_INDEX_DISCRIMINATOR \o ix.authority \o U64LE(ix.note_count)
        \o U32LE(Len(ix.note_ids)) \o Flatten(ix.note_ids)

\* room for the ids of every note the user can hold
UserNoteIndex_MAX_SIZE ==
    DISCRIMINATOR_BYTES + PUBKEY_BYTES + COUNT_BYTES + Len(U32LE(0))
        + COUNT_BYTES * NumNotes

NoIndex == [authority |-> <<>>, note_count |-> 0, note_ids |-> <<>>]

\* Vec<u64>: n ids, one after the other
RECURSIVE ReadIds(_, _)
ReadIds(s, n) ==
    IF n = 0 THEN [ok |-> TRUE, val |-> <<>>, rest |-> s]
    ELSE LET id == ReadU64(s)
             more == IF id.ok THEN ReadIds(id.rest, n - 1) ELSE ReadFail
         IN  IF more.ok THEN [more EXCEPT !.val = <<id.val>> \o more.val]
             ELSE ReadFail

\* Account<UserNoteIndex>::try_from
UserNoteIndex_try_from(a, k) ==
    LET data == a[k].data
        k1 == ReadBytes(Drop(data, DISCRIMINATOR_BYTES), PUBKEY_BYTES)
        c1 == IF k1.ok THEN ReadU64(k1.rest) ELSE ReadFail
        n1 == IF c1.ok THEN ReadBytes(c1.rest, Len(U32LE(0))) ELSE ReadFail
        v1 == IF n1.ok THEN ReadIds(n1.rest, n1.val[1]) ELSE ReadFail
    IN  IF a[k].owner = SYSTEM_PROGRAM /\ a[k].lamports = 0
        THEN [err |-> "AccountNotInitialized", val |-> NoIndex]
        ELSE IF a[k].owner # NOTE_PROGRAM
        THEN [err |-> "AccountOwnedByWrongProgram", val |-> NoIndex]
        ELSE IF Len(data) < DISCRIMINATOR_BYTES
        THEN [err |-> "AccountDiscriminatorNotFound", val |-> NoIndex]
        ELSE IF Take(data, DISCRIMINATOR_BYTES) # USER_NOTE_INDEX_DISCRIMINATOR
        THEN [err |-> "AccountDiscriminatorMismatch", val |-> NoIndex]
        ELSE IF ~v1.ok THEN [err |-> "AccountDidNotDeserialize", val |-> NoIndex]
        ELSE [err |-> "Ok",
              val |-> [authority |-> k1.val, note_count |-> U64Value(c1.val),
                       note_ids |-> v1.val]]

UserNoteIndex_exit(a, k, ix) ==
    LET w == SerializeInto(a[k].data, UserNoteIndex_encode(ix))
        b == [a EXCEPT ![k].data = w.data]
    IN  IF w.ok THEN Ok(b) ELSE Fail("AccountDidNotSerialize", b)

\* the constraints on `user_index`: it is the caller's
UserNoteIndex_constraints(a, x) ==
    LET ix == UserNoteIndex_try_from(a, x.user_index)
    IN  IF ix.err # "Ok" THEN ix.err
        ELSE IF x.user_index # UserIndexPda(x.authority) THEN "ConstraintSeeds"
        ELSE IF ix.val.authority # PubkeyBytes(x.authority) THEN "ConstraintHasOne"
        ELSE "Ok"

\* initializeUserIndex: an index with no ids and a count of 0
initialize_user_index(a, x) ==
    IF x.authority \notin x.signers THEN Fail("AccountNotSigner", a)
    ELSE LET pda == find_program_address(<<PubkeyBytes(x.authority), INDEX_SEED>>,
                                         NOTE_PROGRAM)
         IN  IF ~pda.ok THEN Fail("ProgramFailedToComplete", a)
             ELSE IF pda.key # x.user_index THEN Fail("ConstraintSeeds", a)
             ELSE LET r == create_account(a, x.authority, x.user_index,
                                          minimum_balance(UserNoteIndex_MAX_SIZE),
                                          UserNoteIndex_MAX_SIZE, NOTE_PROGRAM,
                                          x.signers \cup {pda.key})
                  IN  IF r.err # "Ok" THEN r
                      ELSE UserNoteIndex_exit(r.accts, x.user_index,
                               [authority |-> PubkeyBytes(x.authority),
                                note_count |-> 0, note_ids |-> <<>>])

\* createNote: the note is created, its id appended and the count raised
create_note(a, x, note_id, message, now) ==
    LET e == UserNoteIndex_constraints(a, x)
        ix == UserNoteIndex_try_from(a, x.user_index).val
        r == Note_create(a, x, note_id, message, now)
    IN  IF e # "Ok" THEN Fail(e, a)
        ELSE IF r.err # "Ok" THEN r
        ELSE UserNoteIndex_exit(r.accts, x.user_index,
                 [ix EXCEPT !.note_ids = Append(@, note_id),
                            !.note_count = @ + 1])

\* deleteNote with the count lowered as well
delete_note_counting_down(a, x, note_id) ==
    LET e == UserNoteIndex_constraints(a, x)
        ix == UserNoteIndex_try_from(a, x.user_index).val
        r == Note_delete(a, x, note_id)
    IN  IF e # "Ok" THEN Fail(e, a)
        ELSE IF r.err # "Ok" THEN r
        ELSE UserNoteIndex_exit(r.accts, x.user_index,
                 [ix EXCEPT !.note_ids = SelectSeq(@, LAMBDA i : i # note_id),
                            !.note_count = @ - 1])

\* deleteNote: the note is closed and its id taken out of the index; the
\* count stays
delete_note(a, x, note_id) ==
    LET e == UserNoteIndex_constraints(a, x)
        ix == UserNoteIndex_try_from(a, x.user_index).val
        r == Note_delete(a, x, note_id)
    IN  IF e # "Ok" THEN Fail(e, a)
        ELSE IF r.err # "Ok" THEN r
        ELSE UserNoteIndex_exit(r.accts, x.user_index,
                 [ix EXCEPT !.note_ids = SelectSeq(@, LAMBDA i : i # note_id)])

\* the accounts of the suite's calls: the note, the index, the user
IndexAccts(user, note, user_index, signers) ==
    [payer |-> user, target |-> note, authority |-> user, receiver |-> user,
     signers |-> signers, mint |-> 0, spl_token_program |-> 0,
     system_program |-> SYSTEM_PROGRAM, user_index |-> user_index]

IndexAddresses == Users \cup NotebookPdas \cup {UserIndexPda(u) : u \in Users}

\* the index stored for a user
IndexOf(a, user) == UserNoteIndex_try_from(a, UserIndexPda(user)).val

InitializeUserIndexTx(a, user) ==
    Runtime(a, initialize_user_index(a,
        IndexAccts(user, UserIndexPda(user), UserIndexPda(user), {user})))

CreateNoteTx(a, user, note_id, message, now) ==
    Runtime(a, create_note(a,
        IndexAccts(user, NotePda(user, note_id), UserIndexPda(user), {user}),
        note_id, message, now))

DeleteNoteTx(a, user, note_id) ==
    Runtime(a, delete_note(a,
        IndexAccts(user, NotePda(user, note_id), UserIndexPda(user), {user}),
        note_id))

InitializeUserIndex ==
    \E user \in Users :
        Submit("InitializeUserIndex",
               IndexAccts(user, UserIndexPda(user), UserIndexPda(user), {user}),
               InitializeUserIndexTx(accounts, user), clock)

CreateNote ==
    \E user \in Users, note_id \in NotebookIds :
        /\ IndexOf(accounts, user).note_count < MaxNoteCount
        /\ Submit("CreateNote",
                  IndexAccts(user, NotePda(user, note_id), UserIndexPda(user), {user}),
                  CreateNoteTx(accounts, user, note_id, Rep(97, 1), clock), clock)

DeleteNote ==
    \E user \in Users, note_id \in NotebookIds :
        Submit("DeleteNote",
               IndexAccts(user, NotePda(user, note_id), UserIndexPda(user), {user}),
               DeleteNoteTx(accounts, user, note_id), clock)

IndexInit ==
    /\ deployed = NOTE_PROGRAM
    /\ accounts = [k \in IndexAddresses |->
                     IF k \in Users
                     THEN [lamports |-> LAMPORTS_PER_SOL, data |-> <<>>,
                           owner |-> SYSTEM_PROGRAM]
                     ELSE NoAccount]
    /\ clock = 1
    /\ last = [op |-> "None", err |-> "Ok", reopened |-> FALSE]
    /\ closed = {}
    /\ createdAuth = [k \in IndexAddresses |-> <<>>]
    /\ foreign = 0
    /\ call = [step |-> "idle"]

IndexNext ==
    \/ InitializeUserIndex
    \/ CreateNote
    \/ DeleteNote

IndexSpec == IndexInit /\ [][IndexNext]_vars

\* every deleteNote a user can send for an id, with the index before
DeleteNoteAttempts ==
    {[user |-> user, note_id |-> note_id, before |-> IndexOf(accounts, user),
      res |-> DeleteNoteTx(accounts, user, note_id)] :
        user \in Users, note_id \in NotebookIds}

ValidBumps(seeds, program_id) ==
    {b \in 0..MAX_BUMP :
        create_program_address(Append(seeds, <<b>>), program_id).ok}

VAULT_ACCOUNT_SIZE == 1024

\* a keypair of the caller's own, passed as the vault
vaultKey == 35

\* InstructionData { vault_bump_seed: u8, lamports: u64 }
InstructionData_encode(i) == <<i.vault_bump_seed>> \o U64LE(i.lamports)

\* the lamports the examples move fit in the four low bytes
LamportsValue(b) == b[1] + 256 * b[2] + 65536 * b[3] + 16777216 * b[4]

InstructionData_try_from_slice(data) ==
    LET b == ReadU8(data)
        l == IF b.ok THEN ReadU64(b.rest) ELSE ReadFail
    IN  IF l.ok /\ l.rest = <<>>
        THEN [ok |-> TRUE,
              val |-> [vault_bump_seed |-> b.val[1], lamports |-> LamportsValue(l.val)]]
        ELSE [ok |-> FALSE, val |-> [vault_bump_seed |-> 0, lamports |-> 0]]

\* process_instruction: create_account through invoke_signed, signed for
\* the address of the seeds [b"vault", payer, [vault_bump_seed]]
Vault_process(a, x, instruction_data) ==
    LET i == InstructionData_try_from_slice(instruction_data)
        signed == create_program_address(
                      <<VAULT_SEED, PubkeyBytes(x.payer), <<i.val.vault_bump_seed>>>>,
                      VAULT_PROGRAM)
    IN  IF ~i.ok THEN Fail("InvalidInstructionData", a)
        ELSE IF x.system_program # SYSTEM_PROGRAM THEN Fail("IncorrectProgramId", a)
        ELSE IF ~signed.ok THEN Fail("InvalidSeeds", a)
        ELSE create_account(a, x.payer, x.target, i.val.lamports,
                            VAULT_ACCOUNT_SIZE, VAULT_PROGRAM,
                            x.signers \cup {signed.key})

VaultSeeds(payer) == <<VAULT_SEED, PubkeyBytes(payer)>>

\* a bump whose address is on the curve
OnCurveBump(payer) ==
    CHOOSE b \in 0..MAX_BUMP :
        ~create_program_address(Append(VaultSeeds(payer), <<b>>), VAULT_PROGRAM).ok

\* per payer: findProgramAddress of the client (the vault's derived address
\* and bump), and the address of the next bump below it that is off the curve
VaultDerivations ==
    [u \in Users |->
        LET pda == find_program_address(VaultSeeds(u), VAULT_PROGRAM)
        IN  [pda |-> pda,
             second |-> find_from(VaultSeeds(u), VAULT_PROGRAM, pda.bump - 1),
             onCurve |-> OnCurveBump(u)]]

VaultPda(payer) == VaultDerivations[payer].pda

SecondVaultPda(payer) == VaultDerivations[payer].second

VaultPdas == {VaultPda(u).key : u \in Users} \cup {SecondVaultPda(u).key : u \in Users}

VaultTargets == VaultPdas \cup {vaultKey}

VaultAddresses == Users \cup VaultTargets

VaultBumps(payer) ==
    {VaultPda(payer).bump, SecondVaultPda(payer).bump, VaultDerivations[payer].onCurve}

\* the client's 0.1 SOL, the rent of a vault, and less than that
VaultLamports == {100000000, minimum_balance(VAULT_ACCOUNT_SIZE), 1}

VaultCreateTx(a, payer, vault, system_program, signers, bump, lamports) ==
    Runtime(a, Vault_process(a,
        [Accts(payer, vault, payer, payer, signers)
            EXCEPT !.system_program = system_program],
        InstructionData_encode([vault_bump_seed |-> bump, lamports |-> lamports])))

\* every vault creation a caller can send: the payer signs or not, and the
\* vault signs as well when it is the caller's keypair
VaultSigners(payer, vault) ==
    SignerSets({payer}) \cup (IF vault = vaultKey THEN {{payer, vault}} ELSE {})

CreateVault ==
    \E payer \in Users, vault \in VaultTargets, lamports \in VaultLamports,
       system_program \in {SYSTEM_PROGRAM, TOKEN_PROGRAM_ID} :
        \E bump \in VaultBumps(payer), signers \in VaultSigners(payer, vault) :
            /\ Cardinality({k \in VaultTargets : accounts[k] # NoAccount}) < MaxVaults
            /\ Submit("Create",
                      [Accts(payer, vault, payer, payer, signers)
                          EXCEPT !.system_program = system_program],
                      VaultCreateTx(accounts, payer, vault, system_program, signers,
                                    bump, lamports),
                      clock)

VaultInit ==
    /\ deployed = VAULT_PROGRAM
    /\ accounts = [k \in VaultAddresses |->
                     IF k \in Users
                     THEN [lamports |-> LAMPORTS_PER_SOL, data |-> <<>>,
                           owner |-> SYSTEM_PROGRAM]
                     ELSE NoAccount]
    /\ clock = 1
    /\ last = [op |-> "None", err |-> "Ok", reopened |-> FALSE]
    /\ closed = {}
    /\ createdAuth = [k \in VaultAddresses |-> <<>>]
    /\ foreign = 0
    /\ call = [step |-> "idle"]

VaultNext == CreateVault

VaultSpec == VaultInit /\ [][VaultNext]_vars

VaultCreates ==
    UNION {UNION {{[payer |-> payer, target |-> vault, bump |-> bump,
                    lamports |-> lamports,
                    res |-> VaultCreateTx(accounts, payer, vault, SYSTEM_PROGRAM,
                                          signers, bump, lamports)] :
                      signers \in VaultSigners(payer, vault)} :
                  bump \in VaultBumps(payer)} :
           payer \in Users, vault \in VaultTargets, lamports \in VaultLamports}

\* C22: no operation accepts a caller-supplied address or bump as the
\* record's derived address without re-running the derivation from the
\* seeds and module id and comparing the result for equality: a vault is
\* only ever created at the address, and with the bump, that derive returns
\* for the payer.
C22_OnlyDerivedAddressAccepted ==
    \A c \in VaultCreates :
        c.res.err = "Ok" =>
            /\ c.target = VaultPda(c.payer).key
            /\ c.bump = VaultPda(c.payer).bump

\* an account a program owns and that holds lamports
IsFunded(acct) == acct.lamports > 0 /\ acct.owner # SYSTEM_PROGRAM

MetadataUpdates ==
    UNION {{[target |-> MetadataPda(mint),
             bytes |-> TokenMetadata_encode([m EXCEPT !.mint = PubkeyBytes(mint)]),
             res |-> MetadataUpdateTx(accounts, authority, MetadataPda(mint), mint,
                                      {authority}, m)] :
              authority \in Users, m \in MetaValues} :
           mint \in {mint \in Mints : MetadataPda(mint) \in MetadataPdas}}

\* C24: in the token-metadata module, an update whose new encoded metadata
\* has a different size from the stored one resizes the record and
\* re-derives its rent, so that afterwards the record holds the complete new
\* payload: the update succeeds, the record is exactly the new encoding and
\* its balance is the minimum of the new size.
C24_UpdateResizes ==
    \A u \in MetadataUpdates :
        (/\ IsActive(accounts, u.target)
         /\ accounts[u.target].owner = TOKEN_METADATA_PROGRAM
         /\ Len(u.bytes) # Len(accounts[u.target].data)) =>
            /\ u.res.err = "Ok"
            /\ u.res.accts[u.target].data = u.bytes
            /\ u.res.accts[u.target].lamports = minimum_balance(Len(u.bytes))

(***************************************************************************)
(* Resize of a token-metadata record.  The client passes the system        *)
(* program "for reallocation" and the authority writable "for potential    *)
(* lamport transfer" (main.ts 282-286); the handler that resizes is not    *)
(* among the sources and is modelled as the specification describes it.    *)
(***************************************************************************)
\* the bytes the record stored in data needs: mint, then four strings
TokenMetadata_size(data) ==
    LET k == ReadBytes(data, PUBKEY_BYTES)
        n == IF k.ok THEN ReadString(k.rest) ELSE ReadFail
        y == IF n.ok THEN ReadString(n.rest) ELSE ReadFail
        i == IF y.ok THEN ReadString(y.rest) ELSE ReadFail
        h == IF i.ok THEN ReadString(i.rest) ELSE ReadFail
    IN  IF h.ok THEN Len(data) - Len(h.rest) ELSE Len(data)

\* the record's bytes cut or zero-extended to n bytes
Realloc(data, n) ==
    IF n <= Len(data) THEN Take(data, n) ELSE data \o Zeros(n - Len(data))

\* a Resize that cuts the record to any length asked for
Resize_to_any_length(a, x, new_byte_length) ==
    IF x.authority \notin x.signers THEN Fail("MissingRequiredSignature", a)
    ELSE IF ~(a[x.target].lamports > 0 /\ a[x.target].owner = TOKEN_METADATA_PROGRAM)
         THEN Fail("UninitializedAccount", a)
    ELSE LET due == minimum_balance(new_byte_length)
             held == a[x.target].lamports
             b == [a EXCEPT ![x.target].data = Realloc(@, new_byte_length)]
         IN  IF due > held
             THEN IF a[x.authority].lamports < due - held
                  THEN Fail("InsufficientRent", a)
                  ELSE Ok([b EXCEPT ![x.authority].lamports = @ - (due - held),
                                    ![x.target].lamports = due])
             ELSE Ok([[b EXCEPT ![x.target].lamports = due]
                         EXCEPT ![x.receiver].lamports = @ + (held - due)])

\* Resize(address, new_byte_length): require Active; recompute
\* minimum_balance; growing is funded by the authority with the delta or
\* fails InsufficientRent; shrinking refunds the delta to the receiver;
\* never below the bytes the current payload needs
Resize(a, x, new_byte_length) ==
    IF x.authority \notin x.signers THEN Fail("MissingRequiredSignature", a)
    ELSE IF ~(a[x.target].lamports > 0 /\ a[x.target].owner = TOKEN_METADATA_PROGRAM)
         THEN Fail("UninitializedAccount", a)
    ELSE IF new_byte_length < TokenMetadata_size(a[x.target].data)
         THEN Fail("DataTooLarge", a)
    ELSE LET due == minimum_balance(new_byte_length)
             held == a[x.target].lamports
             b == [a EXCEPT ![x.target].data = Realloc(@, new_byte_length)]
         IN  IF due > held
             THEN IF a[x.authority].lamports < due - held
                  THEN Fail("InsufficientRent", a)
                  ELSE Ok([b EXCEPT ![x.authority].lamports = @ - (due - held),
                                    ![x.target].lamports = due])
             ELSE Ok([[b EXCEPT ![x.target].lamports = due]
                         EXCEPT ![x.receiver].lamports = @ + (held - due)])

ResizeAddresses == Users \cup MetadataPdas

\* the record of mintX as RegisterMetadata leaves it, with the longest name
RegisteredMetadata ==
    TokenMetadata_encode([mint |-> PubkeyBytes(mintX), name |-> Rep(97, MaxShortLen),
                          symbol |-> <<83>>, icon |-> <<>>, home |-> <<>>])

\* from one byte less than the shortest record to one more than the longest
ResizeLengths ==
    (Len(RegisteredMetadata) - MaxShortLen)..(Len(RegisteredMetadata) + 1)

ResizeAccts(authority, receiver, signers) ==
    [MetaAccts(authority, MetadataPda(mintX), mintX, signers)
        EXCEPT !.receiver = receiver]

ResizeTx(a, authority, receiver, signers, new_byte_length) ==
    Runtime(a, Resize(a, ResizeAccts(authority, receiver, signers), new_byte_length))

\* the registrar resizes; the refund goes to it or to another account
ResizeRecord ==
    \E authority \in {userA}, receiver \in Users, new_byte_length \in ResizeLengths :
        \E signers \in SignerSets({authority}) :
            Submit("Resize", ResizeAccts(authority, receiver, signers),
                   ResizeTx(accounts, authority, receiver, signers, new_byte_length),
                   clock)

ResizeUpdate ==
    \E authority \in Users, m \in MetaValues :
        Submit("Update", MetaAccts(authority, MetadataPda(mintX), mintX, {authority}),
               MetadataUpdateTx(accounts, authority, MetadataPda(mintX), mintX,
                                {authority}, m),
               clock)

ResizeInit ==
    /\ deployed = TOKEN_METADATA_PROGRAM
    /\ accounts = [k \in ResizeAddresses |->
                     IF k \in Users
                     THEN [lamports |-> LAMPORTS_PER_SOL, data |-> <<>>,
                           owner |-> SYSTEM_PROGRAM]
                     ELSE [lamports |-> minimum_balance(Len(RegisteredMetadata)),
                           data |-> RegisteredMetadata,
                           owner |-> TOKEN_METADATA_PROGRAM]]
    /\ clock = 1
    /\ last = [op |-> "None", err |-> "Ok", reopened |-> FALSE]
    /\ closed = {}
    /\ createdAuth = [k \in ResizeAddresses |->
                        IF k \in Users THEN <<>> ELSE PubkeyBytes(userA)]
    /\ foreign = 0
    /\ call = [step |-> "idle"]

ResizeNext == ResizeRecord \/ ResizeUpdate

ResizeSpec == ResizeInit /\ [][ResizeNext]_vars

ResizeAttempts ==
    UNION {{[target |-> MetadataPda(mintX), new_byte_length |-> new_byte_length,
             res |-> ResizeTx(accounts, authority, receiver, signers, new_byte_length)] :
              signers \in SignerSets({authority})} :
           authority \in {userA}, receiver \in Users, new_byte_length \in ResizeLengths}

\* C25: Resize never sets a record's byte_length below the number of bytes
\* required to hold the record's current encoded payload: every Resize that
\* succeeds leaves the record at the length asked for, which is at least the
\* size of the metadata stored, and leaves that metadata as it was.
C25_ResizeKeepsPayload ==
    \A r \in ResizeAttempts :
        r.res.err = "Ok" =>
            LET old == accounts[r.target].data
                new == r.res.accts[r.target].data
            IN  /\ Len(new) = r.new_byte_length
                /\ Len(new) >= TokenMetadata_size(old)
                /\ Take(new, TokenMetadata_size(old)) = Take(old, TokenMetadata_size(old))

\* a Resize has cut the record to exactly its payload, shorter than it was
\* registered
C25_Witness ==
    /\ last.op = "Resize" /\ last.err = "Ok"
    /\ Len(accounts[MetadataPda(mintX)].data) < Len(RegisteredMetadata)
    /\ Len(accounts[MetadataPda(mintX)].data)
           = TokenMetadata_size(accounts[MetadataPda(mintX)].data)

(***************************************************************************)
(* The user-stats program of anchor-framework-guide.md: a PDA per user     *)
(* holding points and a level.  A u64 is its eight little-endian bytes.    *)
(***************************************************************************)
\* x + y + carry, byte by byte; a ninth byte when the sum passes 2^64 - 1
RECURSIVE AddBytes(_, _, _)
AddBytes(x, y, carry) ==
    IF x = <<>> THEN IF carry = 0 THEN <<>> ELSE <<carry>>
    ELSE LET t == Head(x) + Head(y) + carry
         IN  <<t % 256>> \o AddBytes(Tail(x), Tail(y), t \div 256)

\* x / d for d < 2^23, from the highest byte down
RECURSIVE DivBytes(_, _, _)
DivBytes(x, d, rem) ==
    IF x = <<>> THEN <<>>
    ELSE LET cur == rem * 256 + x[Len(x)]
         IN  Append(DivBytes(SubSeq(x, 1, Len(x) - 1), d, cur % d), cur \div d)

MAX_U64 == Rep(255, COUNT_BYTES)

USER_STATS_DISCRIMINATOR ==
    U64LE(Sha(<<85, 115, 101, 114, 83, 116, 97, 116, 115>>))

\* UserStats { name, level: u64, points: u64, authority, bump: u8 }
UserStats_encode(u) ==
    USER_STATS_DISCRIMINATOR \o WriteString(u.name) \o u.level \o u.points
        \o u.authority \o <<u.bump>>

NoUserStats ==
    [name |-> <<>>, level |-> <<>>, points |-> <<>>, authority |-> <<>>, bump |-> 0]

\* Account<UserStats>::try_from
UserStats_try_from(a, k) ==
    LET data == a[k].data
        n == ReadString(Drop(data, DISCRIMINATOR_BYTES))
        l == IF n.ok THEN ReadU64(n.rest) ELSE ReadFail
        p == IF l.ok THEN ReadU64(l.rest) ELSE ReadFail
        y == IF p.ok THEN ReadBytes(p.rest, PUBKEY_BYTES) ELSE ReadFail
        b == IF y.ok THEN ReadU8(y.rest) ELSE ReadFail
    IN  IF a[k].owner = SYSTEM_PROGRAM /\ a[k].lamports = 0
        THEN [err |-> "AccountNotInitialized", val |-> NoUserStats]
        ELSE IF a[k].owner # STATS_PROGRAM
        THEN [err |-> "AccountOwnedByWrongProgram", val |-> NoUserStats]
        ELSE IF Len(data) < DISCRIMINATOR_BYTES
        THEN [err |-> "AccountDiscriminatorNotFound", val |-> NoUserStats]
        ELSE IF Take(data, DISCRIMINATOR_BYTES) # USER_STATS_DISCRIMINATOR
        THEN [err |-> "AccountDiscriminatorMismatch", val |-> NoUserStats]
        ELSE IF ~b.ok THEN [err |-> "AccountDidNotDeserialize", val |-> NoUserStats]
        ELSE [err |-> "Ok",
              val |-> [name |-> n.val, level |-> l.val, points |-> p.val,
                       authority |-> y.val, bump |-> b.val[1]]]

UserStats_exit(a, k, u) ==
    LET w == SerializeInto(a[k].data, UserStats_encode(u))
        b == [a EXCEPT ![k].data = w.data]
    IN  IF w.ok THEN Ok(b) ELSE Fail("AccountDidNotSerialize", b)

UserStatsSeeds(authority) == <<USER_STATS_SEED, PubkeyBytes(authority)>>

\* space = 8 + 32 + 8 + 8 + 32 + 1 + 4 + name.len()
UserStats_space(name) ==
    DISCRIMINATOR_BYTES + PUBKEY_BYTES + COUNT_BYTES + COUNT_BYTES + PUBKEY_BYTES
        + 1 + Len(U32LE(0)) + Len(name)

\* x.authority (signer and payer), x.target (user_stats)
initialize_user_stats(a, x, name) ==
    IF x.authority \notin x.signers THEN Fail("AccountNotSigner", a)
    ELSE LET pda == find_program_address(UserStatsSeeds(x.authority), STATS_PROGRAM)
         IN  IF ~pda.ok THEN Fail("ProgramFailedToComplete", a)
             ELSE IF pda.key # x.target THEN Fail("ConstraintSeeds", a)
             ELSE LET r == create_account(a, x.authority, x.target,
                                          minimum_balance(UserStats_space(name)),
                                          UserStats_space(name), STATS_PROGRAM,
                                          x.signers \cup {pda.key})
                  IN  IF r.err # "Ok" THEN r
                      ELSE UserStats_exit(r.accts, x.target,
                               [name |-> name, level |-> U64LE(1),
                                points |-> U64LE(0),
                                authority |-> PubkeyBytes(x.authority),
                                bump |-> pda.bump])

\* the constraints on user_stats: seeds with the stored bump, has_one
UserStats_constraints(a, x) ==
    LET u == UserStats_try_from(a, x.target)
        pda == create_program_address(
                   Append(UserStatsSeeds(x.authority), <<u.val.bump>>), STATS_PROGRAM)
    IN  IF u.err # "Ok" THEN u.err
        ELSE IF x.authority \notin x.signers THEN "AccountNotSigner"
        ELSE IF ~pda.ok \/ pda.key # x.target THEN "ConstraintSeeds"
        ELSE IF u.val.authority # PubkeyBytes(x.authority) THEN "ConstraintHasOne"
        ELSE "Ok"

\* user_stats.points += points; user_stats.level = points / 100 + 1.  Past
\* u64::MAX the addition panics in a build with overflow checks and wraps
\* in one without.
update_user_stats(a, x, points, checked) ==
    LET e == UserStats_constraints(a, x)
        u == UserStats_try_from(a, x.target).val
        total == AddBytes(u.points, points, 0)
        wrapped == Take(total, COUNT_BYTES)
        level == Take(AddBytes(DivBytes(wrapped, 100, 0), U64LE(1), 0), COUNT_BYTES)
    IN  IF e # "Ok" THEN Fail(e, a)
        ELSE IF Len(total) > COUNT_BYTES /\ checked THEN Fail("ProgramFailedToComplete", a)
        ELSE UserStats_exit(a, x.target, [u EXCEPT !.points = wrapped, !.level = level])

UserStatsPda(authority) ==
    find_program_address(UserStatsSeeds(authority), STATS_PROGRAM).key

StatsAddresses == Users \cup {UserStatsPda(u) : u \in Users}

\* the guide's "Alice"
StatsNames == {<<65, 108, 105, 99, 101>>}

\* the guide's 150 points, one point, and the two largest amounts
PointAmounts ==
    {U64LE(150), U64LE(1), MAX_U64, [MAX_U64 EXCEPT ![1] = 254]}

InitializeUserStatsTx(a, authority, target, signers, name) ==
    Runtime(a, initialize_user_stats(a, Accts(authority, target, authority, authority,
                                              signers), name))

UpdateUserStatsTx(a, authority, target, signers, points, checked) ==
    Runtime(a, update_user_stats(a, Accts(authority, target, authority, authority,
                                          signers), points, checked))

InitializeUserStats ==
    /\ clock <= MaxStatsCalls
    /\ \E authority \in Users, owner \in Users, name \in StatsNames :
        \E signers \in SignerSets({authority}) :
            Submit("Create",
                   Accts(authority, UserStatsPda(owner), authority, authority, signers),
                   InitializeUserStatsTx(accounts, authority, UserStatsPda(owner),
                                         signers, name),
                   clock + 1)

UpdateUserStats ==
    /\ clock <= MaxStatsCalls
    /\ \E authority \in Users, owner \in Users, points \in PointAmounts,
          checked \in BOOLEAN :
        \E signers \in SignerSets({authority}) :
            Submit("Update",
                   Accts(authority, UserStatsPda(owner), authority, authority, signers),
                   UpdateUserStatsTx(accounts, authority, UserStatsPda(owner),
                                     signers, points, checked),
                   clock + 1)

StatsInit ==
    /\ deployed = STATS_PROGRAM
    /\ accounts = [k \in StatsAddresses |->
                     IF k \in Users
                     THEN [lamports |-> LAMPORTS_PER_SOL, data |-> <<>>,
                           owner |-> SYSTEM_PROGRAM]
                     ELSE NoAccount]
    /\ clock = 1
    /\ last = [op |-> "None", err |-> "Ok", reopened |-> FALSE]
    /\ closed = {}
    /\ createdAuth = [k \in StatsAddresses |-> <<>>]
    /\ foreign = 0
    /\ call = [step |-> "idle"]

StatsNext == InitializeUserStats \/ UpdateUserStats

StatsSpec == StatsInit /\ [][StatsNext]_vars

\* every update of its own points a user signs, under either build
PointsUpdates ==
    {[target |-> UserStatsPda(authority), points |-> points,
      res |-> UpdateUserStatsTx(accounts, authority, UserStatsPda(authority),
                                {authority}, points, checked)] :
        authority \in Users, points \in PointAmounts, checked \in BOOLEAN}

\* C26: any balance addition or subtraction that would overflow or
\* underflow makes the whole operation fail with ArithmeticOverflow; no
\* balance value is ever clamped or wrapped: an update of a user's points
\* stores the exact sum, or, when the sum passes 2^64 - 1, fails with
\* ArithmeticOverflow and changes nothing.
C26_OverflowFailsOperation ==
    \A p \in PointsUpdates :
        UserStats_try_from(accounts, p.target).err = "Ok" =>
            LET total == AddBytes(UserStats_try_from(accounts, p.target).val.points,
                                  p.points, 0)
            IN  IF Len(total) > COUNT_BYTES
                THEN p.res.err = "ArithmeticOverflow" /\ p.res.accts = accounts
                ELSE /\ p.res.err = "Ok"
                     /\ UserStats_try_from(p.res.accts, p.target).val.points = total

\* the transactions of one IncrementCounter that the authority stored in
\* the counter has not signed
UnsignedIncrements ==
    {tx \in CounterTransactions :
        /\ Len(tx.instructions) = 1
        /\ tx.instructions[1].data = <<INCREMENT_COUNTER>>
        /\ accounts[tx.instructions[1].keys[1]].owner = COUNTER_PROGRAM
        /\ \A u \in tx.signers :
               Counter_try_from_slice(accounts[tx.instructions[1].keys[1]].data)
                   .val.authority # PubkeyBytes(u)}

\* C27: a mutating operation is rejected when the caller is not marked as a
\* verified signer of the instruction, even if the caller's identifier
\* equals the record's stored authority: an increment that the counter's
\* authority has not signed fails and leaves the ledger as it was.
C27_UnsignedCallerRejected ==
    \A tx \in UnsignedIncrements, checked \in BOOLEAN :
        /\ Transaction(accounts, tx, checked).err # "Ok"
        /\ Transaction(accounts, tx, checked).accts = accounts

\* the records the programs and clients read back from an account
StoredRecords == {"Memo", "Note", "CounterAccount"}

\* the bytes of a payload followed by zero bytes only
IsPadded(kind, payload, wire) ==
    /\ Len(wire) > Len(Encode(kind, payload))
    /\ wire = Encode(kind, payload) \o Zeros(Len(wire) - Len(Encode(kind, payload)))

\* C28: decoding a record stored in an over-allocated (padded) region
\* succeeds: it consumes only the bytes declared by the schema and ignores
\* the padding after them, returning the record.
C28_PaddedRecordDecodes ==
    (/\ call.step = "decoded"
     /\ call.kind \in StoredRecords
     /\ IsPadded(call.kind, call.payload, call.wire)) =>
        /\ call.result.ok
        /\ (call.kind = "CounterAccount" => IsSafeInteger(call.payload.count)) =>
               call.result.val = call.payload

\* the memos in use with the user that created each
OwnMemos ==
    {m \in [target : MemoKeys, authority : Users] :
        /\ IsActive(accounts, m.target)
        /\ accounts[m.target].owner = MEMO_PROGRAM
        /\ createdAuth[m.target] = PubkeyBytes(m.authority)}

\* C29: after any sequence of successful Updates by the authority,
\* including ones that make the content shorter than before, the memo
\* record is still decodable and Active, so a further Update or Delete by
\* the same authority succeeds.
C29_MemoStaysUsable ==
    \A m \in OwnMemos :
        /\ Memo_try_from_slice(accounts[m.target].data).ok
        /\ MemoUpdateTx(accounts, m.target, m.authority, {m.authority}, <<>>).err = "Ok"
        /\ MemoDeleteTx(accounts, m.target, m.authority, m.authority,
                        {m.authority}).err = "Ok"

(***************************************************************************)
(* ALTManager.waitForActivation (alt-utils.ts): the loop that polls the    *)
(* lookup table after createLookupTable has sent its transaction.  call    *)
(* holds the loop: pc, attempts, the polls made, the polls that threw,     *)
(* and whether the node polled shows the table's addresses yet.            *)
(***************************************************************************)
maxAttempts == 30

WaitInit ==
    /\ deployed = COUNTER_PROGRAM
    /\ accounts = [k \in Users |->
                     [lamports |-> LAMPORTS_PER_SOL, data |-> <<>>,
                      owner |-> SYSTEM_PROGRAM]]
    /\ clock = 1
    /\ last = [op |-> "None", err |-> "Ok", reopened |-> FALSE]
    /\ closed = {}
    /\ createdAuth = [k \in Users |-> <<>>]
    /\ foreign = 0
    /\ call = [step |-> "waitForActivation", pc |-> "poll", attempts |-> 0,
               polls |-> 0, errors |-> 0, visible |-> FALSE, shown |-> FALSE]

\* the node polled has caught up with the transaction that filled the table
Propagate ==
    /\ call.step = "waitForActivation"
    /\ ~call.visible
    /\ call' = [call EXCEPT !.visible = TRUE]
    /\ UNCHANGED ledgerVars

\* a poll that throws and does not count as an attempt
PollThrows_without_counting ==
    /\ call.pc = "poll" /\ call.attempts < maxAttempts
    /\ call' = [call EXCEPT !.pc = "sleep", !.polls = @ + 1, !.errors = @ + 1]
    /\ UNCHANGED ledgerVars

\* getAddressLookupTable throws: caught, attempts++, then the timer
PollThrows ==
    /\ call.pc = "poll" /\ call.attempts < maxAttempts
    /\ call' = [call EXCEPT !.pc = "sleep", !.polls = @ + 1, !.errors = @ + 1,
                            !.attempts = @ + 1]
    /\ UNCHANGED ledgerVars

\* the poll answers with no table, or a table without addresses
PollShowsNothing ==
    /\ call.pc = "poll" /\ call.attempts < maxAttempts
    /\ ~call.visible
    /\ call' = [call EXCEPT !.pc = "sleep", !.polls = @ + 1, !.attempts = @ + 1]
    /\ UNCHANGED ledgerVars

\* the poll shows the table with at least one address: return
PollShowsAddresses ==
    /\ call.pc = "poll" /\ call.attempts < maxAttempts
    /\ call.visible
    /\ call' = [call EXCEPT !.pc = "returned", !.polls = @ + 1, !.shown = TRUE]
    /\ UNCHANGED ledgerVars

\* setTimeout(resolve, 2000) fires and the loop tests its condition again
Sleep ==
    /\ call.pc = "sleep"
    /\ call' = [call EXCEPT !.pc = "poll"]
    /\ UNCHANGED ledgerVars

\* the loop is left: throw new Error('Address lookup table activation timeout')
ActivationTimeout ==
    /\ call.pc = "poll" /\ call.attempts >= maxAttempts
    /\ call' = [call EXCEPT !.pc = "thrown"]
    /\ UNCHANGED ledgerVars

\* the steps of waitForActivation itself
WaitStep ==
    \/ PollThrows
    \/ PollShowsNothing
    \/ PollShowsAddresses
    \/ Sleep
    \/ ActivationTimeout

WaitNext == WaitStep \/ Propagate

\* every poll settles and every timer fires
WaitSpec == WaitInit /\ [][WaitNext]_vars /\ WF_vars(WaitStep)

\* C30: waitForActivation always finishes: it returns as soon as one poll
\* shows the lookup table with at least one address, and otherwise throws
\* the activation-timeout error after exactly 30 polls, also when every
\* poll itself throws.
C30_WaitForActivationFinishes ==
    /\ <>(call.pc \in {"returned", "thrown"})
    /\ [](call.pc = "returned" => call.shown /\ call.polls <= maxAttempts)
    /\ [](call.shown => call.pc = "returned")
    /\ [](call.pc = "thrown" => ~call.shown /\ call.polls = maxAttempts)

\* the timeout was thrown after 30 polls that all threw
C30_Witness ==
    call.step = "waitForActivation" /\ call.pc = "thrown" /\ call.errors = maxAttempts

====
